---- MODULE Spec2Model ----
(***************************************************************************)
(* A model of the layout engine of baodweb (src/core/elements.py):         *)
(* Box / Button geometry and rendering, and TableElement column            *)
(* negotiation.                                                            *)
(*                                                                         *)
(* Text is modelled character by character.  A Python str is a sequence    *)
(* of characters; a character is a TLA+ string naming one codepoint:       *)
(*   "a".."z", digits, "[", ";", " "  the ASCII characters themselves      *)
(*   ESC   U+001B (starts an escape sequence; a control character)         *)
(*   NL    U+000A (line feed; a control character)                         *)
(*   CJK   one East-Asian wide codepoint such as U+4E2D (two cells)        *)
(*   TL1 TR1 BL1 BR1 H1 V1   the thin border glyphs                        *)
(*   TL2 TR2 BL2 BR2 H2 V2   the thick border glyphs                       *)
(*   TD TU TLT TRT TX        the junction glyphs of a table's borders      *)
(***************************************************************************)
EXTENDS Integers, Sequences, FiniteSets, TLC

VARIABLES term, node, call, raised, out

vars == <<term, node, call, raised, out>>

----------------------------------------------------------------------------
(* Characters and the constants of core/ansi.py                            *)

ESC == "ESC"
NL == "NL"
CJK == "CJK"

Digits == {"0", "1", "2", "3", "4", "5", "6", "7", "8", "9"}

Letters == {"a", "b", "c", "d", "e", "f", "g", "h", "i", "j", "k", "l", "m",
            "n", "o", "p", "q", "r", "s", "t", "u", "v", "w", "x", "y", "z",
            "A", "B", "H", "K", "O"}

RESET == <<ESC, "[", "0", "m">>
BOLD == <<ESC, "[", "1", "m">>
WHITE_FG == <<ESC, "[", "3", "7", "m">>

(* Python's optional arguments: None is the empty tuple, a value v is <<v>> *)
None == <<>>
Some(v) == <<v>>

(* LetIn(v, F) is F(v), with v evaluated once however often F uses it *)
LetIn(v, F(_)) == CHOOSE r \in {F(x) : x \in {v}} : TRUE

Max(a, b) == IF a >= b THEN a ELSE b
Min(a, b) == IF a <= b THEN a ELSE b

(* ' ' * n : the empty string when n <= 0 *)
Spaces(n) == [i \in 1..n |-> " "]
Repeat(c, n) == [i \in 1..n |-> c]

(* s[:k] with Python's treatment of a negative k *)
SliceTo(s, k) == IF k >= 0 THEN SubSeq(s, 1, Min(k, Len(s)))
                 ELSE SubSeq(s, 1, Max(0, Len(s) + k))

RECURSIVE Concat(_)
Concat(ss) == IF ss = <<>> THEN <<>> ELSE Head(ss) \o Concat(Tail(ss))

(* wcwidth.wcwidth: -1 for a C0 control character, 2 for a wide one *)
wcwidth(c) == IF c \in {ESC, NL} THEN 0 - 1 ELSE IF c = CJK THEN 2 ELSE 1

(* The loops over the characters of a string are written as recursions     *)
(* over halves of an index range, so that a whole terminal row of 80 and   *)
(* more characters is processed in logarithmic depth.                      *)
RECURSIVE SumWidthRange(_, _, _)
SumWidthRange(s, lo, hi) ==
    IF lo > hi THEN 0
    ELSE IF lo = hi THEN wcwidth(s[lo])
    ELSE LET mid == (lo + hi) \div 2
         IN SumWidthRange(s, lo, mid) + SumWidthRange(s, mid + 1, hi)

SumWidth(s) == LetIn(s, LAMBDA t : SumWidthRange(t, 1, Len(t)))

(* wcwidth.wcswidth: -1 as soon as one character has no width *)
wcswidth(s) ==
    LetIn(s, LAMBDA t : IF \E i \in 1..Len(t) : wcwidth(t[i]) < 0 THEN 0 - 1
                        ELSE SumWidth(t))

(* unicodedata.category(ch)[0] == 'C' *)
IsControl(c) == c \in {ESC, NL}

(* The end of the match of ANSI_ESCAPE = \x1b\[[0-9;]*[a-zA-Z] starting at  *)
(* position i of s, or 0 when there is no match at i.                       *)
RECURSIVE AnsiParams(_, _)
AnsiParams(s, j) == IF j <= Len(s) /\ s[j] \in Digits \cup {";"}
                    THEN AnsiParams(s, j + 1) ELSE j

AnsiMatchEnd(s, i) ==
    IF i + 1 <= Len(s) /\ s[i] = ESC /\ s[i + 1] = "["
    THEN LET j == AnsiParams(s, i + 2)
         IN IF j <= Len(s) /\ s[j] \in Letters THEN j ELSE 0
    ELSE 0

(* The matches of ANSI_ESCAPE in s as <<start, end>>.  A match holds one   *)
(* ESC only, its first character, so two matches never overlap and the     *)
(* leftmost-first scan of finditer / sub finds exactly the positions at     *)
(* which the pattern matches.                                               *)
AnsiMatches(s) ==
    {<<k, AnsiMatchEnd(s, k)>> : k \in {k \in 1..Len(s) : s[k] = ESC /\ AnsiMatchEnd(s, k) > 0}}

(* ANSI_ESCAPE.finditer(s): the parts list built by Box.render (lines       *)
(* 253-263), each part [text, is_ansi]: a whole match, or one character     *)
(* outside every match.                                                     *)
RECURSIVE AnsiPartsRange(_, _, _, _)
AnsiPartsRange(s, M, lo, hi) ==
    IF lo > hi THEN <<>>
    ELSE IF lo = hi
    THEN IF \E m \in M : m[1] = lo
         THEN <<[text |-> SubSeq(s, lo, (CHOOSE m \in M : m[1] = lo)[2]), is_ansi |-> TRUE]>>
         ELSE IF \E m \in M : m[1] < lo /\ lo <= m[2] THEN <<>>
         ELSE <<[text |-> <<s[lo]>>, is_ansi |-> FALSE]>>
    ELSE LET mid == (lo + hi) \div 2
         IN AnsiPartsRange(s, M, lo, mid) \o AnsiPartsRange(s, M, mid + 1, hi)

AnsiParts(s) ==
    LetIn(s, LAMBDA t :
    LetIn(AnsiMatches(t), LAMBDA M : AnsiPartsRange(t, M, 1, Len(t))))

(* ''.join of the text of parts lo..hi, with or without the escape codes *)
RECURSIVE PartsText(_, _, _, _)
PartsText(ps, keepAnsi, lo, hi) ==
    IF lo > hi THEN <<>>
    ELSE IF lo = hi
    THEN IF ps[lo].is_ansi /\ ~keepAnsi THEN <<>> ELSE ps[lo].text
    ELSE LET mid == (lo + hi) \div 2
         IN PartsText(ps, keepAnsi, lo, mid) \o PartsText(ps, keepAnsi, mid + 1, hi)

(* ANSI_ESCAPE.sub('', s) *)
StripAnsi(s) == LetIn(AnsiParts(s), LAMBDA ps : PartsText(ps, FALSE, 1, Len(ps)))

(* The end of the match of \x1b\[[0-9;]*m starting at position i of s, or  *)
(* 0 when there is no match at i.                                           *)
SgrMatchEnd(s, i) ==
    IF i + 1 <= Len(s) /\ s[i] = ESC /\ s[i + 1] = "["
    THEN LET j == AnsiParams(s, i + 2)
         IN IF j <= Len(s) /\ s[j] = "m" THEN j ELSE 0
    ELSE 0

SgrMatches(s) ==
    {<<k, SgrMatchEnd(s, k)>> : k \in {k \in 1..Len(s) : s[k] = ESC /\ SgrMatchEnd(s, k) > 0}}

(* re.split(r'(\x1b\[[0-9;]*m)', text) as _wrap_cell walks it: every match   *)
(* is one part, the text between two matches is walked character by        *)
(* character                                                                *)
SgrParts(s) ==
    LetIn(s, LAMBDA t :
    LetIn(SgrMatches(t), LAMBDA M : AnsiPartsRange(t, M, 1, Len(t))))

(* re.sub(r'\x1b\[[0-9;]*m', '', s) *)
StripSgr(s) == LetIn(SgrParts(s), LAMBDA ps : PartsText(ps, FALSE, 1, Len(ps)))

(* Box._visible_width *)
Box_visible_width(text) ==
    LET no_ansi == StripAnsi(text)
        cleaned == SelectSeq(no_ansi, LAMBDA ch : ~IsControl(ch))
    IN wcswidth(cleaned)

(* str.rstrip('\n') and str.split('\n') *)
RECURSIVE RStripNL(_)
RStripNL(s) == IF s # <<>> /\ s[Len(s)] = NL THEN RStripNL(SubSeq(s, 1, Len(s) - 1))
               ELSE s

RECURSIVE SplitNL(_, _)
SplitNL(s, cur) ==
    IF s = <<>> THEN <<cur>>
    ELSE IF Head(s) = NL THEN <<cur>> \o SplitNL(Tail(s), <<>>)
         ELSE SplitNL(Tail(s), Append(cur, Head(s)))

----------------------------------------------------------------------------
(* Box (src/core/elements.py)                                              *)

Alignments == {"left", "center", "right"}
BorderStyles == {0, 1, 2}

BORDER_CHARS_THIN == [top_left |-> <<"TL1">>, top_right |-> <<"TR1">>,
                      bottom_left |-> <<"BL1">>, bottom_right |-> <<"BR1">>,
                      horizontal |-> "H1", vertical |-> <<"V1">>, drawn |-> TRUE]
BORDER_CHARS_THICK == [top_left |-> <<"TL2">>, top_right |-> <<"TR2">>,
                       bottom_left |-> <<"BL2">>, bottom_right |-> <<"BR2">>,
                       horizontal |-> "H2", vertical |-> <<"V2">>, drawn |-> TRUE]
(* every glyph of style 0 is the empty string, so '' * n is empty too *)
BORDER_CHARS_NONE == [top_left |-> <<>>, top_right |-> <<>>,
                      bottom_left |-> <<>>, bottom_right |-> <<>>,
                      horizontal |-> "", vertical |-> <<>>, drawn |-> FALSE]

(* selected_chars['horizontal'] * n *)
HorizontalFill(chars, n) == IF chars.drawn THEN Repeat(chars.horizontal, n) ELSE <<>>

(* a constructor that validates the alignment only *)
BoxInitRaises_AlignmentOnly(a) ==
    a.element_alignment \notin Alignments

(* Box.__init__ : the attributes of the new object, or the exception raised *)
BoxInitRaises(a) ==
    \/ a.element_alignment \notin Alignments
    \/ a.border_style \notin BorderStyles

BoxInit(a) ==
    [kind |-> "Box",
     label |-> <<>>,
     elements |-> a.elements,
     box_title |-> a.box_title,
     start_x_init |-> a.start_x,
     start_y_init |-> a.start_y,
     end_x_init |-> a.end_x,
     end_y_init |-> a.end_y,
     border_color_code |-> WHITE_FG,
     element_alignment |-> a.element_alignment,
     padding_x |-> Max(0, a.padding_x),
     padding_y |-> Max(0, a.padding_y),
     margin_x |-> Max(0, a.margin_x),
     margin_y |-> Max(0, a.margin_y),
     border_style |-> a.border_style,
     border_chars |-> IF a.border_style = 1 THEN BORDER_CHARS_THIN
                      ELSE IF a.border_style = 2 THEN BORDER_CHARS_THICK
                      ELSE BORDER_CHARS_NONE]

(* Box.render, the truncation loop over parts (lines 265-275): the scan of  *)
(* parts lo..hi entered with current_width = acc.  brk is the index of the  *)
(* part at which the loop breaks (0: it does not break in lo..hi), acc the  *)
(* current_width after the range.                                           *)
RECURSIVE TruncateScan(_, _, _, _, _)
TruncateScan(parts, lo, hi, acc, visible_chars_to_keep) ==
    IF lo > hi THEN [brk |-> 0, acc |-> acc]
    ELSE IF lo = hi
    THEN IF parts[lo].is_ansi THEN [brk |-> 0, acc |-> acc]
         ELSE LET char_width == wcswidth(parts[lo].text)
              IN IF acc + char_width <= visible_chars_to_keep
                 THEN [brk |-> 0, acc |-> acc + char_width]
                 ELSE [brk |-> lo, acc |-> acc]
    ELSE LetIn(TruncateScan(parts, lo, (lo + hi) \div 2, acc, visible_chars_to_keep),
               LAMBDA left :
                 IF left.brk > 0 THEN left
                 ELSE TruncateScan(parts, (lo + hi) \div 2 + 1, hi, left.acc,
                                   visible_chars_to_keep))

(* truncated_line: every part before the break, escape codes included *)
TruncateParts(parts, current_width, visible_chars_to_keep) ==
    LetIn(parts, LAMBDA ps :
    LetIn(TruncateScan(ps, 1, Len(ps), current_width, visible_chars_to_keep), LAMBDA r :
      PartsText(ps, TRUE, 1, IF r.brk > 0 THEN r.brk - 1 ELSE Len(ps))))

(* Box.render step 3: the padding added left and right of one child line *)
DynamicPads(alignment, additional_padding_needed) ==
    LetIn(additional_padding_needed, LAMBDA n :
      IF alignment = "center"
      THEN [left |-> n \div 2, right |-> n - (n \div 2)]
      ELSE IF alignment = "right"
      THEN [left |-> n, right |-> 0]
      ELSE [left |-> 0, right |-> 0])

(* Box.render step 3 for one child line *)
ProcessLine(self, line, content_area_width, inner_target) ==
    LET line_width == Box_visible_width(line)
        additional_padding_needed == Max(0, content_area_width - line_width)
        pads == DynamicPads(self.element_alignment, additional_padding_needed)
    IN LetIn(Spaces(self.padding_x) \o Spaces(pads.left) \o line
             \o Spaces(pads.right) \o Spaces(self.padding_x), LAMBDA line_to_add_inner :
       LetIn(Box_visible_width(line_to_add_inner), LAMBDA current_line_rendered_width :
         IF current_line_rendered_width < inner_target
         THEN line_to_add_inner \o Spaces(inner_target - current_line_rendered_width)
         ELSE IF current_line_rendered_width > inner_target
         THEN TruncateParts(AnsiParts(line_to_add_inner), 0, inner_target)
         ELSE line_to_add_inner))

(* Box.render step 1: the lines of every child, in order *)
RECURSIVE RenderedChildLines(_)
RenderedChildLines(elements) ==
    IF elements = <<>> THEN <<>>
    ELSE SplitNL(RStripNL(Head(elements)), <<>>) \o RenderedChildLines(Tail(elements))

RECURSIVE MaxWidth(_)
MaxWidth(lines) ==
    IF lines = <<>> THEN 0 ELSE Max(MaxWidth(Tail(lines)), Box_visible_width(Head(lines)))

Truthy(opt) == opt # None /\ opt[1] # <<>>

(* Box.render lines 336-355: the top border *)
TopBorder(self, border_color, reset, horizontal_fill_width) ==
    LET chars == self.border_chars
    IN IF Truthy(self.box_title) /\ self.border_style \in {1, 2}
       THEN LET title_width == Box_visible_width(self.box_title[1])
                title_text ==
                    IF title_width + 2 > horizontal_fill_width
                    THEN SliceTo(self.box_title[1],
                                 title_width - (title_width + 2 - horizontal_fill_width))
                    ELSE self.box_title[1]
                left_dashes == (horizontal_fill_width - Box_visible_width(title_text) - 2)
                               \div 2
                right_dashes == horizontal_fill_width - Box_visible_width(title_text) - 2
                                - left_dashes
            IN border_color \o chars.top_left \o HorizontalFill(chars, left_dashes)
               \o <<" ">> \o title_text \o <<" ">>
               \o HorizontalFill(chars, right_dashes) \o chars.top_right \o reset
       ELSE border_color \o chars.top_left \o HorizontalFill(chars, horizontal_fill_width)
            \o chars.top_right \o reset

(* a right edge that forgets the column index is zero-based *)
BoxEndX_OneBased(self, terminal_width) ==
    IF self.end_x_init # None THEN self.end_x_init[1] - self.margin_x
    ELSE terminal_width - self.margin_x

(* Box.render lines 167-170: box_end_x before it is clamped to the terminal *)
BoxEndX(self, terminal_width) ==
    IF self.end_x_init # None THEN self.end_x_init[1] - self.margin_x
    ELSE terminal_width - 1 - self.margin_x

(* a content width sized to the children alone *)
ContentAreaWidth_ContentSized(box_width, total_horizontal_overhead, max_child_content_width, min_box_width_required) ==
    max_child_content_width

(* Box.render lines 203-207: the content width before the terminal clamp *)
ContentAreaWidth(box_width, total_horizontal_overhead, max_child_content_width, min_box_width_required) ==
    Max(Max(box_width - total_horizontal_overhead, max_child_content_width),
        IF min_box_width_required > 0
        THEN min_box_width_required - total_horizontal_overhead ELSE 0)

(* Box.render lines 160-217: the bounds and the widths, given the widest    *)
(* child line                                                               *)
BoxGeometry(self, terminal_width, max_child_content_width) ==
    LET border_cols == IF self.border_style \in {1, 2} THEN 2 ELSE 0
        actual_start_x_with_margin ==
            IF self.start_x_init # None THEN self.start_x_init[1] ELSE 0
        box_start_x0 == actual_start_x_with_margin + self.margin_x
        box_end_x0 == BoxEndX(self, terminal_width)
        box_start_x == Max(0, IF box_start_x0 > box_end_x0 THEN box_end_x0
                              ELSE box_start_x0)
        box_end_x1 == Min(terminal_width - 1, box_end_x0)
        box_width0 == box_end_x1 - box_start_x + 1
        total_horizontal_overhead == border_cols + 2 * self.padding_x
        min_box_width_required ==
            IF Truthy(self.box_title)
            THEN Max(total_horizontal_overhead,
                     Box_visible_width(self.box_title[1]) + 2 + total_horizontal_overhead)
            ELSE total_horizontal_overhead
        content_area_width0 ==
            ContentAreaWidth(box_width0, total_horizontal_overhead,
                             max_child_content_width, min_box_width_required)
        box_width1 == content_area_width0 + total_horizontal_overhead
        clamp == box_start_x + box_width1 > terminal_width
        box_width == IF clamp THEN terminal_width - box_start_x ELSE box_width1
        content_area_width ==
            IF clamp THEN Max(0, box_width - total_horizontal_overhead)
            ELSE content_area_width0
    IN [border_cols |-> border_cols,
        box_start_x |-> box_start_x,
        box_width |-> box_width,
        total_horizontal_overhead |-> total_horizontal_overhead,
        content_area_width |-> content_area_width,
        horizontal_fill_width |-> box_width - border_cols]

(* Box.render step 3 (lines 220-281): processed_padded_lines *)
ProcessedPaddedLines(self, g, rendered_child_lines) ==
    IF rendered_child_lines = <<>> THEN <<Spaces(g.content_area_width)>>
    ELSE [i \in 1..Len(rendered_child_lines) |->
            ProcessLine(self, rendered_child_lines[i], g.content_area_width,
                        g.box_width - g.total_horizontal_overhead)]

(* surplus rows with the odd one above the content *)
VerticalPads_ExtraOnTop(extra_vertical_space) ==
    [top |-> extra_vertical_space - (extra_vertical_space \div 2),
     bottom |-> extra_vertical_space \div 2]

(* Box.render lines 300-305: the surplus rows above and below the content *)
VerticalPads(extra_vertical_space) ==
    [top |-> extra_vertical_space \div 2,
     bottom |-> extra_vertical_space - (extra_vertical_space \div 2)]

(* Box.render step 4 (lines 284-305): the height and the filler rows, given *)
(* the number of content lines                                              *)
BoxHeights(self, g, calculated_content_lines_count) ==
    LET required_content_height == calculated_content_lines_count + 2 * self.padding_y
        actual_start_y_with_margin ==
            IF self.start_y_init # None THEN self.start_y_init[1] ELSE 0
        box_start_y == actual_start_y_with_margin + self.margin_y
        box_height0 ==
            IF self.end_y_init = None THEN required_content_height + g.border_cols
            ELSE (self.end_y_init[1] - self.margin_y) - box_start_y + 1
        box_height == Max(box_height0, g.border_cols)
        vertical_content_area_height == box_height - g.border_cols
        extra_vertical_space ==
            IF vertical_content_area_height > required_content_height
            THEN vertical_content_area_height - required_content_height ELSE 0
        pads == VerticalPads(extra_vertical_space)
    IN [box_height |-> box_height,
        required_content_height |-> required_content_height,
        vertical_pad_top_inner |-> pads.top,
        vertical_pad_bottom_inner |-> pads.bottom]

(* Box.render lines 319-323: final_content_line of every processed line *)
FinalContentLines(g, processed_padded_lines) ==
    [i \in 1..Len(processed_padded_lines) |->
       processed_padded_lines[i]
       \o Spaces(Max(0, g.horizontal_fill_width
                        - Box_visible_width(processed_padded_lines[i])))]

(* Box.render step 5 (lines 310-363): full_box_output, the rows from the    *)
(* top border to the bottom border                                          *)
FullBoxOutput(self, g, h, final_content_lines, enable_color) ==
    LET border_color == IF enable_color THEN self.border_color_code ELSE <<>>
        reset == IF enable_color THEN RESET ELSE <<>>
        chars == self.border_chars
        filler == border_color \o chars.vertical \o Spaces(g.horizontal_fill_width)
                  \o chars.vertical \o reset
        content_rows ==
            [i \in 1..Len(final_content_lines) |->
               border_color \o chars.vertical \o reset \o final_content_lines[i]
               \o border_color \o chars.vertical \o reset]
        output_lines_for_box_rendering ==
            [i \in 1..(self.padding_y + h.vertical_pad_top_inner) |-> filler]
            \o content_rows
            \o [i \in 1..(self.padding_y + h.vertical_pad_bottom_inner) |-> filler]
        bottom_border == border_color \o chars.bottom_left
                         \o HorizontalFill(chars, g.horizontal_fill_width)
                         \o chars.bottom_right \o reset
    IN IF self.border_style \in {1, 2}
       THEN <<TopBorder(self, border_color, reset, g.horizontal_fill_width)>>
            \o output_lines_for_box_rendering \o <<bottom_border>>
       ELSE output_lines_for_box_rendering

(* Box.render lines 365-380: the margins around full_box_output; the string *)
(* returned is these rows, each followed by a line feed                     *)
FinalRenderedBlock(self, g, full_box_output) ==
    [i \in 1..self.margin_y |-> Spaces(g.box_width + 2 * self.margin_x)]
    \o [i \in 1..Len(full_box_output) |->
          Spaces(self.margin_x) \o full_box_output[i] \o Spaces(self.margin_x)]
    \o [i \in 1..self.margin_y |-> Spaces(g.box_width + 2 * self.margin_x)]

(* Box.render: the result records the locals the layout is stated in beside *)
(* the rows returned                                                        *)
BoxRender(self, terminal_width, enable_color) ==
    LetIn(RenderedChildLines(self.elements), LAMBDA rendered_child_lines :
    LetIn(BoxGeometry(self, terminal_width, MaxWidth(rendered_child_lines)), LAMBDA g :
    LetIn(ProcessedPaddedLines(self, g, rendered_child_lines), LAMBDA processed_padded_lines :
    LetIn(BoxHeights(self, g, Len(processed_padded_lines)), LAMBDA h :
    LetIn(FinalContentLines(g, processed_padded_lines), LAMBDA final_content_lines :
    LetIn(FullBoxOutput(self, g, h, final_content_lines, enable_color),
          LAMBDA full_box_output :
       [terminal_width |-> terminal_width,
        enable_color |-> enable_color,
        box_start_x |-> g.box_start_x,
        box_width |-> g.box_width,
        content_area_width |-> g.content_area_width,
        horizontal_fill_width |-> g.horizontal_fill_width,
        rendered_child_lines |-> rendered_child_lines,
        final_content_lines |-> final_content_lines,
        vertical_pad_top_inner |-> h.vertical_pad_top_inner,
        vertical_pad_bottom_inner |-> h.vertical_pad_bottom_inner,
        full_box_output |-> full_box_output,
        final_rendered_block |-> FinalRenderedBlock(self, g, full_box_output)]))))))

(* Button.__init__ : a Box around the bold label, centred, with the        *)
(* placeholder end_x                                                        *)
ButtonInit(a) ==
    [BoxInit([elements |-> <<BOLD \o a.label \o RESET>>,
              box_title |-> None,
              start_x |-> Some(0), start_y |-> Some(0),
              end_x |-> Some(10), end_y |-> None,
              element_alignment |-> "center",
              padding_x |-> a.padding_x, padding_y |-> a.padding_y,
              margin_x |-> a.margin_x, margin_y |-> a.margin_y,
              border_style |-> a.border_style])
     EXCEPT !.kind = "Button", !.label = a.label]

(* Button.render lines 689-697: the attributes it reassigns before it       *)
(* calls Box.render                                                         *)
ButtonPrepare(self) ==
    LET label_width == wcswidth(StripSgr(self.label))
        total_width == 2 + 2 * self.padding_x + label_width
    IN [self EXCEPT
          !.end_x_init = Some(self.start_x_init[1] + total_width + 2 * self.margin_x - 1),
          !.elements = <<BOLD \o self.label \o RESET>>]

----------------------------------------------------------------------------
(* TableElement (src/core/elements.py)                                     *)

(* TableElement._visible_width *)
Table_visible_width(text) == wcswidth(StripSgr(text))

(* "".join(re.findall(ansi_escape, text)): the escape codes among parts     *)
(* lo..hi                                                                   *)
RECURSIVE InitialAnsiCodes(_, _, _)
InitialAnsiCodes(ps, lo, hi) ==
    IF lo > hi THEN <<>>
    ELSE IF lo = hi THEN (IF ps[lo].is_ansi THEN ps[lo].text ELSE <<>>)
    ELSE InitialAnsiCodes(ps, lo, (lo + hi) \div 2)
         \o InitialAnsiCodes(ps, (lo + hi) \div 2 + 1, hi)

(* a step that breaks the line only once it is full, whatever the width of *)
(* the character to come                                                    *)
WrapStep_IgnoresCharWidth(part, st, width, initial_ansi_codes) ==
    IF part.is_ansi
    THEN [st EXCEPT !.current = st.current \o part.text]
    ELSE LET char_width == wcswidth(part.text)
             wraps == st.visible_width >= width
         IN [lines |-> IF wraps THEN Append(st.lines, st.current \o RESET)
                       ELSE st.lines,
             current |-> (IF wraps THEN initial_ansi_codes ELSE st.current)
                         \o part.text,
             visible_width |-> (IF wraps THEN 0 ELSE st.visible_width) + char_width]

(* a step that starts the new line without the character that did not fit *)
WrapStep_DropsCharAtBreak(part, st, width, initial_ansi_codes) ==
    IF part.is_ansi
    THEN [st EXCEPT !.current = st.current \o part.text]
    ELSE LET char_width == wcswidth(part.text)
             wraps == st.visible_width + char_width > width
         IN [lines |-> IF wraps THEN Append(st.lines, st.current \o RESET)
                       ELSE st.lines,
             current |-> IF wraps THEN initial_ansi_codes ELSE st.current \o part.text,
             visible_width |-> IF wraps THEN 0 ELSE st.visible_width + char_width]

(* TableElement._wrap_cell, one step of the loop of lines 567-577: st holds *)
(* lines, the joined current_line_parts and current_line_visible_width     *)
WrapStep(part, st, width, initial_ansi_codes) ==
    IF part.is_ansi
    THEN [st EXCEPT !.current = st.current \o part.text]
    ELSE LET char_width == wcswidth(part.text)
             wraps == st.visible_width + char_width > width
         IN [lines |-> IF wraps THEN Append(st.lines, st.current \o RESET)
                       ELSE st.lines,
             current |-> (IF wraps THEN initial_ansi_codes ELSE st.current)
                         \o part.text,
             visible_width |-> (IF wraps THEN 0 ELSE st.visible_width) + char_width]

(* the loop over parts lo..hi, in order, entered in state st *)
RECURSIVE WrapScan(_, _, _, _, _, _)
WrapScan(ps, lo, hi, st, width, initial_ansi_codes) ==
    IF lo > hi THEN st
    ELSE IF lo = hi THEN WrapStep(ps[lo], st, width, initial_ansi_codes)
    ELSE LetIn(WrapScan(ps, lo, (lo + hi) \div 2, st, width, initial_ansi_codes),
               LAMBDA left :
                 WrapScan(ps, (lo + hi) \div 2 + 1, hi, left, width, initial_ansi_codes))

(* TableElement._wrap_cell: the lines of one cell *)
Table_wrap_cell(text, width) ==
    LetIn(SgrParts(text), LAMBDA ps :
    LetIn(InitialAnsiCodes(ps, 1, Len(ps)), LAMBDA initial_ansi_codes :
    LetIn(WrapScan(ps, 1, Len(ps),
                   [lines |-> <<>>, current |-> <<>>, visible_width |-> 0],
                   width, initial_ansi_codes), LAMBDA st :
      IF ps = <<>> THEN st.lines ELSE Append(st.lines, st.current \o RESET))))

(* TableElement.__init__: max_width or the terminal's columns *)
TableInit(a, terminal_width) ==
    [kind |-> "Table",
     headers |-> a.headers,
     rows |-> a.rows,
     max_width |-> IF a.max_width = None \/ a.max_width[1] = 0 THEN terminal_width
                   ELSE a.max_width[1]]

RECURSIVE SumSeq(_)
SumSeq(ws) == IF ws = <<>> THEN 0 ELSE Head(ws) + SumSeq(Tail(ws))

RECURSIVE MaxLen(_)
MaxLen(rows) == IF rows = <<>> THEN 0 ELSE Max(Len(Head(rows)), MaxLen(Tail(rows)))

(* int(x / y) for y > 0: the quotient rounded towards zero *)
IntQuotient(x, y) == IF x >= 0 THEN x \div y ELSE 0 - ((0 - x) \div y)

(* TableElement.render lines 596-610: the text of every cell, the join of   *)
(* what its parts render to                                                 *)
CellTexts(all_cells) ==
    [r \in 1..Len(all_cells) |-> [i \in 1..Len(all_cells[r]) |-> Concat(all_cells[r][i])]]

(* TableElement.render lines 592-612: the widest cell of every column, from *)
(* 0, plus the two padding cells                                            *)
RECURSIVE WidestFrom(_, _, _)
WidestFrom(cell_texts, i, r) ==
    IF r > Len(cell_texts) THEN 0
    ELSE Max(WidestFrom(cell_texts, i, r + 1),
             IF i <= Len(cell_texts[r]) THEN Table_visible_width(cell_texts[r][i]) ELSE 0)

(* natural widths that leave the header row out *)
NaturalColumnWidths_BodyOnly(cell_texts, num_cols) ==
    [i \in 1..num_cols |-> WidestFrom(cell_texts, i, 2) + 2]

NaturalColumnWidths(cell_texts, num_cols) ==
    [i \in 1..num_cols |-> WidestFrom(cell_texts, i, 1) + 2]

min_col_width == 6

(* a shrink that keeps the proportional share as it comes *)
FlexibleCols_NoFloor(column_widths, available) ==
    [i \in 1..Len(column_widths) |->
       IntQuotient(column_widths[i] * available, SumSeq(column_widths))]

(* TableElement.render line 618: flexible_cols *)
FlexibleCols(column_widths, available) ==
    [i \in 1..Len(column_widths) |->
       Max(min_col_width,
           IntQuotient(column_widths[i] * available, SumSeq(column_widths)))]

(* mid.join(...) *)
RECURSIVE Join(_, _)
Join(mid, ss) ==
    IF ss = <<>> THEN <<>>
    ELSE IF Len(ss) = 1 THEN Head(ss)
    ELSE Head(ss) \o mid \o Join(mid, Tail(ss))

(* TableElement.render.make_border *)
make_border(left, mid, right, fill, column_widths) ==
    <<left>> \o Join(<<mid>>, [i \in 1..Len(column_widths) |-> Repeat(fill, column_widths[i])])
    \o <<right>>

(* a row in which a cell that has run out of lines is left out unpadded *)
render_row_NoFill(cells, is_header, enable_color, column_widths) ==
    LetIn([i \in 1..Len(cells) |-> Table_wrap_cell(cells[i], column_widths[i] - 2)],
          LAMBDA wrapped_lines :
      LET max_lines == MaxLen(wrapped_lines)
          cell(i, line_num) ==
              IF line_num <= Len(wrapped_lines[i])
              THEN LET txt == wrapped_lines[i][line_num]
                   IN <<" ">> \o txt
                      \o Spaces(column_widths[i] - Table_visible_width(txt) - 1)
              ELSE <<>>
      IN [line_num \in 1..max_lines |->
            <<"V1">> \o Join(<<"V1">>, [i \in 1..Len(cells) |-> cell(i, line_num)])
            \o <<"V1">>])

(* TableElement.render.render_row: the physical lines of one row *)
render_row(cells, is_header, enable_color, column_widths) ==
    LetIn([i \in 1..Len(cells) |-> Table_wrap_cell(cells[i], column_widths[i] - 2)],
          LAMBDA wrapped_lines :
      LET max_lines == MaxLen(wrapped_lines)
          cell(i, line_num) ==
              LET txt == IF line_num <= Len(wrapped_lines[i])
                         THEN wrapped_lines[i][line_num] ELSE <<>>
                  pad_len == column_widths[i] - Table_visible_width(txt) - 1
              IN IF is_header /\ enable_color
                 THEN <<" ">> \o BOLD \o txt \o RESET \o Spaces(pad_len)
                 ELSE <<" ">> \o txt \o Spaces(pad_len)
      IN [line_num \in 1..max_lines |->
            <<"V1">> \o Join(<<"V1">>, [i \in 1..Len(cells) |-> cell(i, line_num)])
            \o <<"V1">>])

(* TableElement.render: the result records column_widths and the borders    *)
(* beside the lines returned, each of which is followed by a line feed      *)
TableRender(self, enable_color) ==
    IF self.headers = <<>> /\ self.rows = <<>>
    THEN [empty |-> TRUE, natural_widths |-> <<>>, total_width |-> 0, shrunk |-> FALSE,
          available |-> 0, column_widths |-> <<>>, top_border |-> <<>>,
          middle_border |-> <<>>, bottom_border |-> <<>>, row_lines |-> <<>>,
          output_lines |-> <<>>]
    ELSE
    LetIn(CellTexts(<<self.headers>> \o self.rows), LAMBDA cell_texts :
    LetIn(NaturalColumnWidths(cell_texts, MaxLen(cell_texts)), LAMBDA natural_widths :
      LET total_width == SumSeq(natural_widths) + Len(natural_widths) + 1
          shrunk == total_width > self.max_width
          available == self.max_width - (Len(natural_widths) + 1)
      IN
    LetIn(IF shrunk THEN FlexibleCols(natural_widths, available) ELSE natural_widths,
          LAMBDA column_widths :
    LetIn([r \in 1..Len(cell_texts) |->
             render_row(cell_texts[r], r = 1, enable_color, column_widths)],
          LAMBDA row_lines :
      LET top_border == make_border("TL1", "TD", "TR1", "H1", column_widths)
          middle_border == make_border("TLT", "TX", "TRT", "H1", column_widths)
          bottom_border == make_border("BL1", "TU", "BR1", "H1", column_widths)
      IN [empty |-> FALSE,
          natural_widths |-> natural_widths,
          total_width |-> total_width,
          shrunk |-> shrunk,
          available |-> available,
          column_widths |-> column_widths,
          top_border |-> top_border,
          middle_border |-> middle_border,
          bottom_border |-> bottom_border,
          row_lines |-> row_lines,
          output_lines |->
              <<top_border>>
              \o (IF self.headers # <<>> THEN row_lines[1] \o <<middle_border>> ELSE <<>>)
              \o Concat([r \in 1..Len(self.rows) |-> row_lines[r + 1]])
              \o <<bottom_border>>]))))

----------------------------------------------------------------------------
(* The inputs the model draws                                               *)

MaxStartX == 2
MaxPadX == 1
MaxMarginX == 1
MaxPadY == 1
MaxMarginY == 1

TermWidths == {3, 8, 80}

Str10 == <<"a", "b", "c", "d", "e", "f", "g", "h", "i", "j">>

(* what the children of a box render to: one string per child *)
ElementLists ==
    { <<>>,
      << Str10 >>,
      << BOLD \o <<"a", "b">> \o RESET >>,
      << <<"a", CJK, "b">> >>,
      << <<"a", "b", NL, "a", "b", "c", "d">> >>,
      << <<"a", "b", "c">>, BOLD \o Str10 \o RESET \o <<NL>> >> }

Titles == {None, Some(<<"H", "i">>), Some(<<CJK, CJK>>)}

AlignmentArgs == Alignments \cup {"justify"}
BorderStyleArgs == BorderStyles \cup {3}

(* boxes that vary in their horizontal geometry *)
HorizontalArgs ==
    [elements : ElementLists,
     box_title : Titles,
     start_x : {Some(x) : x \in (0..MaxStartX) \cup {79}},
     start_y : {Some(0)},
     end_x : {None, Some(13)},
     end_y : {None},
     element_alignment : AlignmentArgs,
     padding_x : (0 - 1)..MaxPadX,
     padding_y : {0},
     margin_x : 0..MaxMarginX,
     margin_y : {0},
     border_style : BorderStyleArgs]

(* boxes that vary in their vertical geometry *)
VerticalArgs ==
    [elements : ElementLists,
     box_title : {None},
     start_x : {Some(0)},
     start_y : {None, Some(0), Some(1)},
     end_x : {None},
     end_y : {None, Some(1), Some(8)},
     element_alignment : {"left"},
     padding_x : {1},
     padding_y : 0..MaxPadY,
     margin_x : {0},
     margin_y : 0..MaxMarginY,
     border_style : BorderStyles]

BoxArgs == HorizontalArgs \cup VerticalArgs

ButtonArgs ==
    [label : {<<"O", "K">>, <<"a", CJK>>},
     padding_x : 0..MaxPadX,
     padding_y : 0..MaxPadY,
     margin_x : 0..MaxMarginX,
     margin_y : {0},
     border_style : BorderStyleArgs]

MaxTableWidth == 20

(* table cells: the list of what each part of the cell renders to, which   *)
(* is printable text with or without style codes                            *)
CellA == << <<"A">> >>
CellBB == << <<"B", "B">> >>
Cell1 == << <<"1">> >>
Cell22 == << <<"2", "2">> >>
CellStr10 == << Str10 >>
CellStyled == << BOLD \o <<"a", "b">> \o RESET >>
CellCJK == << <<"a", CJK, "b">> >>
CellTwoParts == << <<"a", "b">>, BOLD \o <<"c">> \o RESET >>
CellEmpty == <<>>

TableHeaders ==
    { <<>>,
      <<CellA, CellBB>>,
      <<CellStr10, CellStyled, CellCJK>>,
      <<CellA>> }

TableRows ==
    { <<>>,
      << <<Cell1, Cell22>> >>,
      << <<CellStr10, Cell22>>, <<Cell1>> >>,
      << <<CellTwoParts, CellEmpty, CellStr10>> >>,
      << <<>> >> }

TableArgs ==
    [headers : TableHeaders,
     rows : TableRows,
     max_width : {None} \cup {Some(w) : w \in (0 - 1)..MaxTableWidth}]

MaxWrapLen == 4
MaxWrapWidth == 3

RED_FG == <<ESC, "[", "3", "1", "m">>

(* the strings handed to _wrap_cell: up to MaxWrapLen pieces, each a       *)
(* narrow character, a wide character or a style code                      *)
WrapPieces == {<<"a">>, <<"b">>, <<CJK>>, BOLD, RED_FG, RESET}
WrapStrings(len) == {Concat(ps) : ps \in UNION {[1..n -> WrapPieces] : n \in 0..len}}

MaxEscLen == 6

(* the strings handed to Box._visible_width on their own: up to MaxEscLen  *)
(* characters of escape sequences, whole, cut short or nested, and of      *)
(* narrow and wide text                                                     *)
EscChars == {ESC, "[", "1", "m", CJK}
EscStrings(len) == UNION {[1..n -> EscChars] : n \in 0..len}

----------------------------------------------------------------------------
(* The state machine: a terminal of term columns, the node constructed     *)
(* last (None: none), the alignment / border arguments of the last         *)
(* constructor call, the exception it raised, and what render returned.    *)

Init == /\ term \in TermWidths
        /\ node = None
        /\ call = None
        /\ raised = "none"
        /\ out = None

(* Box(elements, tag_type, ...) *)
NewBox ==
    /\ node = None /\ raised = "none"
    /\ \E a \in BoxArgs :
         /\ call' = Some([cls |-> "Box", element_alignment |-> a.element_alignment,
                          border_style |-> a.border_style])
         /\ IF BoxInitRaises(a)
            THEN /\ raised' = "ValueError"
                 /\ node' = None
            ELSE /\ raised' = "none"
                 /\ node' = Some(BoxInit(a))
    /\ out' = None
    /\ UNCHANGED term

(* Button(label, ...) *)
NewButton ==
    /\ node = None /\ raised = "none"
    /\ \E a \in ButtonArgs :
         /\ call' = Some([cls |-> "Button", element_alignment |-> "center",
                          border_style |-> a.border_style])
         /\ IF BoxInitRaises([element_alignment |-> "center",
                              border_style |-> a.border_style])
            THEN /\ raised' = "ValueError"
                 /\ node' = None
            ELSE /\ raised' = "none"
                 /\ node' = Some(ButtonInit(a))
    /\ out' = None
    /\ UNCHANGED term

(* node.render(enable_color) for a Box or a Button *)
RenderBox ==
    /\ node # None /\ out = None
    /\ node[1].kind \in {"Box", "Button"}
    /\ \E enable_color \in BOOLEAN :
         LET self == IF node[1].kind = "Button" THEN ButtonPrepare(node[1]) ELSE node[1]
         IN /\ node' = Some(self)
            /\ out' = Some(BoxRender(self, term, enable_color))
    /\ UNCHANGED <<term, call, raised>>

(* TableElement(headers, rows, max_width) *)
NewTable ==
    /\ node = None /\ raised = "none"
    /\ \E a \in TableArgs :
         /\ node' = Some(TableInit(a, term))
         /\ call' = Some([cls |-> "TableElement", max_width |-> a.max_width])
    /\ raised' = "none"
    /\ out' = None
    /\ UNCHANGED term

(* node.render(enable_color) for a TableElement *)
RenderTable ==
    /\ node # None /\ out = None
    /\ node[1].kind = "Table"
    /\ \E enable_color \in BOOLEAN : out' = Some(TableRender(node[1], enable_color))
    /\ UNCHANGED <<term, node, call, raised>>

(* the node, or the failed call, is dropped *)
Discard ==
    /\ node # None \/ raised # "none"
    /\ node' = None /\ call' = None /\ raised' = "none" /\ out' = None
    /\ UNCHANGED term

Next ==
    \/ NewBox
    \/ NewButton
    \/ RenderBox
    \/ Discard

Spec == Init /\ [][Next]_vars

TableNext ==
    \/ NewTable
    \/ RenderTable
    \/ Discard

TableSpec == Init /\ [][TableNext]_vars

(* the terminal is resized: what was painted is stale, the node is         *)
(* rendered again                                                           *)
Resize ==
    /\ node # None
    /\ \E columns \in TermWidths \ {term} : term' = columns
    /\ out' = None
    /\ UNCHANGED <<node, call, raised>>

ResizeNext ==
    \/ NewTable
    \/ RenderTable
    \/ Resize
    \/ Discard

ResizeSpec == Init /\ [][ResizeNext]_vars

(* table._wrap_cell(text, width), called on its own: node records the      *)
(* arguments, out the lines returned                                        *)
WrapInit == /\ term = 80
            /\ node = None
            /\ call = None
            /\ raised = "none"
            /\ out = None

WrapCell ==
    /\ node = None /\ raised = "none"
    /\ \E text \in WrapStrings(MaxWrapLen), width \in 1..MaxWrapWidth :
         /\ node' = Some([kind |-> "_wrap_cell", text |-> text, width |-> width])
         /\ out' = Some([lines |-> Table_wrap_cell(text, width)])
    /\ call' = None
    /\ raised' = "none"
    /\ UNCHANGED term

WrapNext ==
    \/ WrapCell
    \/ Discard

WrapSpec == WrapInit /\ [][WrapNext]_vars

(* box._visible_width(text), called on its own, next to the width of the   *)
(* text with the matches of ANSI_ESCAPE removed once: node records the      *)
(* argument, out the two widths                                             *)
MeasureWidth ==
    /\ node = None /\ raised = "none"
    /\ \E text \in EscStrings(MaxEscLen) :
         /\ node' = Some([kind |-> "_visible_width", text |-> text])
         /\ out' = Some([width |-> Box_visible_width(text),
                         stripped |-> StripAnsi(text),
                         stripped_width |-> Box_visible_width(StripAnsi(text))])
    /\ call' = None
    /\ raised' = "none"
    /\ UNCHANGED term

WidthNext ==
    \/ MeasureWidth
    \/ Discard

WidthSpec == WrapInit /\ [][WidthNext]_vars

----------------------------------------------------------------------------
(* The Browser of main.py: the anchor registry and the commands that       *)
(* display a document.  A document is the sequence of its anchors in the   *)
(* order the parser constructs them; what a file or a server returns for a *)
(* URL is the environment's choice.                                        *)

MaxAnchors == 2
MaxHistory == 2
MaxAnchorId == 4
MaxMessages == 1

Links == {[text |-> "one", href |-> "u1"], [text |-> "two", href |-> "u2"]}
Documents == UNION {[1..n -> Links] : n \in 0..MaxAnchors}
GoUrls == {"u1", "u2"}
TestUrls == {"test:t1"}

(* HtmlGenerator.generate_random_page_with_tag: two anchors for the tag a, *)
(* none for the other tags                                                  *)
GeneratedDocuments ==
    {<<>>, <<[text |-> "Click me", href |-> "example"], [text |-> "Google", href |-> "google"]>>}

(* the config page template holds no anchor *)
ConfigDocument == <<>>

(* Anchor.__init__ for every anchor of the document in turn, as            *)
(* Parser.parse reaches them: the anchor is registered under the next id   *)
RECURSIVE ParseAnchors(_, _, _)
ParseAnchors(document, current_anchors, next_anchor_id) ==
    IF document = <<>>
    THEN [current_anchors |-> current_anchors, next_anchor_id |-> next_anchor_id]
    ELSE ParseAnchors(Tail(document),
                      (next_anchor_id :> Head(document)) @@ current_anchors,
                      next_anchor_id + 1)

(* Browser.__init__ *)
BrowserNew ==
    [kind |-> "Browser", started |-> FALSE, history |-> <<>>, current_url |-> None,
     current_anchors |-> <<>>, next_anchor_id |-> 1]

(* Browser.load_content: the registry is cleared, the counter reset, the   *)
(* content parsed                                                           *)
LoadContent(self, document) ==
    LET parsed == ParseAnchors(document, <<>>, 1)
    IN [self EXCEPT !.current_anchors = parsed.current_anchors,
                    !.next_anchor_id = parsed.next_anchor_id]

(* a navigate that records the URL in the history only *)
Navigate_HistoryOnly(self, url, document) ==
    LoadContent([self EXCEPT !.history = Append(@, url)], document)

(* Browser.navigate *)
Navigate(self, url, document) ==
    LoadContent([self EXCEPT !.current_url = Some(url),
                             !.history = Append(@, url)], document)

(* the branch generate of Browser.handle_input: the generated page is      *)
(* parsed into the registry as it stands                                    *)
GenerateContent(self, document) ==
    LET parsed == ParseAnchors(document, self.current_anchors, self.next_anchor_id)
    IN [self EXCEPT !.current_anchors = parsed.current_anchors,
                    !.next_anchor_id = parsed.next_anchor_id]

(* the document a URL loads: the config page is generated, the rest is     *)
(* read or fetched                                                          *)
DocumentsOf(url) == IF url = "config-page:current" THEN {ConfigDocument} ELSE Documents

(* Renderer.clear and Renderer.refresh, on a screen that is the sequence   *)
(* of what was printed since it was cleared last: refresh clears, then     *)
(* renders the document                                                     *)
Cleared(screen) == <<>>
Refreshed_NoClear(screen, document) == Append(screen, [document |-> document])
Refreshed(screen, document) == Append(Cleared(screen), [document |-> document])

(* The Browser: node is the browser, call the command handled last, out    *)
(* the document displayed last, whether the last command painted it, and   *)
(* the screen.                                                              *)
BrowserInit == /\ term = 80
               /\ node = Some(BrowserNew)
               /\ call = None
               /\ raised = "none"
               /\ out = None

IsBrowser == node # None /\ node[1].kind = "Browser"

Display(self, cmd, document) ==
    /\ node' = Some(self)
    /\ call' = Some([cmd |-> cmd])
    /\ out' = Some([document |-> document, painted |-> TRUE,
                    screen |-> Refreshed(IF out = None THEN <<>> ELSE out[1].screen,
                                         document)])
    /\ UNCHANGED <<term, raised>>

(* a command that prints a message and displays nothing *)
Reply(cmd) ==
    /\ Len(out[1].screen) <= MaxMessages
    /\ call' = Some([cmd |-> cmd])
    /\ out' = Some([out[1] EXCEPT !.painted = FALSE,
                                  !.screen = Append(@, [message |-> "printed"])])
    /\ UNCHANGED <<term, node, raised>>

(* Browser.start up to its first prompt *)
Start ==
    /\ IsBrowser /\ ~node[1].started
    /\ \E document \in Documents :
         Display(LoadContent([node[1] EXCEPT !.started = TRUE], document), "start", document)

(* go <url> *)
Go ==
    /\ IsBrowser /\ node[1].started /\ Len(node[1].history) < MaxHistory
    /\ \E url \in GoUrls, document \in Documents :
         Display(Navigate(node[1], url, document), "go", document)

(* test <page> *)
Test ==
    /\ IsBrowser /\ node[1].started /\ Len(node[1].history) < MaxHistory
    /\ \E url \in TestUrls, document \in Documents :
         Display(Navigate(node[1], url, document), "test", document)

(* generate <tag>: a supported tag displays a generated page, any other   *)
(* tag prints the list of the supported ones                                *)
Generate ==
    /\ IsBrowser /\ node[1].started
    /\ \E supported \in BOOLEAN :
         IF supported
         THEN \E document \in GeneratedDocuments :
                /\ node[1].next_anchor_id + Len(document) - 1 <= MaxAnchorId
                /\ Display(GenerateContent(node[1], document), "generate", document)
         ELSE Reply("generate")

(* click <id>: an id of the registry navigates to its href, any other id   *)
(* prints an error                                                          *)
Click ==
    /\ IsBrowser /\ node[1].started
    /\ \E anchor_id \in 0..(MaxAnchorId + 1) :
         IF anchor_id \in DOMAIN node[1].current_anchors
         THEN /\ Len(node[1].history) < MaxHistory
              /\ \E document \in Documents :
                   Display(Navigate(node[1], node[1].current_anchors[anchor_id].href, document),
                           "click", document)
         ELSE Reply("click")

(* back *)
Back ==
    /\ IsBrowser /\ node[1].started
    /\ IF Len(node[1].history) > 1
       THEN LET history == SubSeq(node[1].history, 1, Len(node[1].history) - 1)
                url == history[Len(history)]
                self == [node[1] EXCEPT !.history = history, !.current_url = Some(url)]
            IN \E document \in DocumentsOf(url) :
                 Display(LoadContent(self, document), "back", document)
       ELSE Reply("back")

(* config: Browser._show_config_page(add_to_history=True) *)
ShowConfig ==
    /\ IsBrowser /\ node[1].started /\ Len(node[1].history) < MaxHistory
    /\ Display(LoadContent([node[1] EXCEPT !.current_url = Some("config-page:current"),
                                           !.history = Append(@, "config-page:current")],
                           ConfigDocument), "config", ConfigDocument)

(* config <option> <value>: a change that is accepted reloads the page *)
SetConfig ==
    /\ IsBrowser /\ node[1].started
    /\ \E accepted \in BOOLEAN :
         IF accepted
         THEN \E document \in (IF node[1].current_url = None THEN Documents
                               ELSE DocumentsOf(node[1].current_url[1])) :
                Display(LoadContent(node[1], document), "config set", document)
         ELSE Reply("config set")

(* list-tests, list-languages, config with two words, any other input *)
PrintOnly ==
    /\ IsBrowser /\ node[1].started
    /\ Reply("other")

BrowserNext ==
    \/ Start
    \/ Go
    \/ Test
    \/ Generate
    \/ Click
    \/ Back
    \/ ShowConfig
    \/ SetConfig
    \/ PrintOnly

BrowserSpec == BrowserInit /\ [][BrowserNext]_vars

----------------------------------------------------------------------------
(* The Renderer of main.py and the per-tag configuration                   *)

MaxParts == 2
MaxChildren == 2

UNDERLINE == <<ESC, "[", "4", "m">>
BLUE_FG == <<ESC, "[", "3", "4", "m">>
CYAN_FG == <<ESC, "[", "3", "6", "m">>

(* the characters of the text of the document; titles, hrefs and ids are   *)
(* written with other characters                                            *)
TextChars == {"x", "y", "z"}

TextNodes == {[kind |-> "TextNode", tag_type |-> "text", text |-> <<c>>] : c \in {"x", "y"}}
Anchors == {[kind |-> "Anchor", tag_type |-> "a", text |-> <<"z">>, href |-> <<"u">>, anchor_id |-> "1"]}
InlineNodes == TextNodes \cup Anchors
Paragraphs(max_parts) ==
    {[kind |-> "Paragraph", tag_type |-> "p", content_parts |-> parts] :
        parts \in UNION {[1..n -> InlineNodes] : n \in 1..max_parts}}
Divs(max_parts, max_children) ==
    {[kind |-> "Div", tag_type |-> "div", elements |-> elements] :
        elements \in UNION {[1..n -> InlineNodes \cup Paragraphs(max_parts)] :
                               n \in 0..max_children}}
DocumentElements(max_parts, max_children) ==
    {<<e>> : e \in InlineNodes \cup Paragraphs(max_parts) \cup Divs(max_parts, max_children)}
PageTitles == {None, Some(<<"T">>)}

(* the configuration: enable-color and the render-<tag> options *)
ConfigurableTags == {"a", "p", "div"}
Configs == [enable_color : {"0", "1"}, render : [ConfigurableTags -> {"0", "1"}]]

(* ConfigManager.is_color_enabled and ConfigManager.should_render_tag *)
is_color_enabled(config) == config.enable_color = "1"
should_render_tag(config, tag_name) ==
    IF tag_name = "text" THEN TRUE ELSE config.render[tag_name] = "1"

(* str.strip() *)
IsSpace(c) == c \in {" ", NL}
RECURSIVE LStrip(_)
LStrip(s) == IF s # <<>> /\ IsSpace(Head(s)) THEN LStrip(Tail(s)) ELSE s
RECURSIVE RStrip(_)
RStrip(s) == IF s # <<>> /\ IsSpace(s[Len(s)]) THEN RStrip(SubSeq(s, 1, Len(s) - 1)) ELSE s
Strip(s) == RStrip(LStrip(s))

(* Anchor.render *)
AnchorRender(self, enable_color) ==
    IF enable_color
    THEN <<"[", self.anchor_id, "]", " ">> \o BLUE_FG \o UNDERLINE \o Strip(self.text) \o RESET
    ELSE <<"[", self.anchor_id, "]", " ">> \o Strip(self.text) \o <<" ", "[">> \o self.href \o <<"]">>

(* TextNode.render and Anchor.render *)
InlineRender(self, enable_color) ==
    IF self.kind = "Anchor" THEN AnchorRender(self, enable_color) ELSE self.text

(* Paragraph.render *)
ParagraphRender(self, enable_color) ==
    Concat([i \in 1..Len(self.content_parts) |->
                InlineRender(self.content_parts[i], enable_color)]) \o <<NL>>

(* element.render for a child of a Div *)
ChildRender(self, enable_color) ==
    IF self.kind = "Paragraph" THEN ParagraphRender(self, enable_color)
    ELSE InlineRender(self, enable_color)

(* Div.render: every child is rendered, on a line of its own *)
DivRender(self, enable_color) ==
    LET rendered_children ==
            [i \in 1..Len(self.elements) |->
                LET rendered_child == ChildRender(self.elements[i], enable_color)
                IN IF rendered_child # <<>> /\ rendered_child[Len(rendered_child)] = NL
                   THEN rendered_child ELSE rendered_child \o <<NL>>]
        content == Strip(Concat(rendered_children))
    IN IF content # <<>> THEN <<NL>> \o content \o <<NL>> ELSE <<>>

(* Renderer._render_elements_recursive: what the loop prints *)
RECURSIVE render_elements_recursive(_, _, _)
render_elements_recursive(config, elements, enable_color) ==
    IF elements = <<>> THEN <<>>
    ELSE LET element == Head(elements)
             printed ==
                 IF ~should_render_tag(config, element.tag_type) THEN <<>>
                 ELSE IF element.kind = "Div" THEN DivRender(element, enable_color)
                 ELSE ChildRender(element, enable_color)
         IN printed \o render_elements_recursive(config, Tail(elements), enable_color)

(* Renderer.render: the title line or lines, then the elements *)
RendererRender(config, elements, title) ==
    LET enable_color == is_color_enabled(config)
        heading ==
            IF title = None THEN <<>>
            ELSE IF enable_color
            THEN UNDERLINE \o BOLD \o CYAN_FG \o Spaces(Len(title[1]) + 13) \o RESET \o <<NL>>
                 \o UNDERLINE \o BOLD \o CYAN_FG \o <<"|">> \o Spaces(5) \o title[1]
                 \o Spaces(5) \o <<"|">> \o RESET \o <<NL>>
            ELSE <<"-", "-", "-", " ">> \o title[1] \o <<" ", "-", "-", "-", NL>>
    IN heading \o render_elements_recursive(config, elements, enable_color)

(* renderer.render(elements, title) under a configuration: node records    *)
(* the document and the configuration, out what was printed                *)
RenderDocument ==
    /\ node = None /\ raised = "none"
    /\ \E config \in Configs, elements \in DocumentElements(MaxParts, MaxChildren), title \in PageTitles :
         /\ node' = Some([kind |-> "Document", config |-> config, elements |-> elements,
                          title |-> title])
         /\ out' = Some([printed |-> RendererRender(config, elements, title)])
    /\ call' = None
    /\ raised' = "none"
    /\ UNCHANGED term

RendererNext ==
    \/ RenderDocument
    \/ Discard

RendererSpec == WrapInit /\ [][RendererNext]_vars

----------------------------------------------------------------------------
(* ImageElement: the steps of render, each able to fail, and the stream    *)
(* sys.stdout names                                                         *)

(* ImageElement(src, width, height, base_url, max_width, alt): a width or  *)
(* height read from an attribute is a string                                *)
ImageArgs ==
    [src : {None, Some("/i.png"), Some("http://h/i.png")},
     width : {None, Some([int |-> 8]), Some([str |-> "8"])},
     height : {None, Some([int |-> 10]), Some([str |-> "10"])},
     base_url : {None, Some("http://h/")},
     max_width : {None, Some(80)},
     alt : {"", "pic"}]

(* what the network and the image decoder do during one render: the       *)
(* request, the response's status, the conversion                           *)
ImageEnvironments == [get : BOOLEAN, status : BOOLEAN, art : BOOLEAN]

(* ImageElement.__init__ *)
ImageInit(a) ==
    [kind |-> "Image", src |-> a.src, width |-> a.width, height |-> a.height,
     base_url |-> a.base_url, max_width |-> a.max_width, alt |-> a.alt]

(* a value is an int, or a str *)
IsInt(v) == "int" \in DOMAIN v

(* alt if alt else src, as the f-string formats it *)
ImageLabel(self) ==
    IF self.alt # "" THEN self.alt ELSE IF self.src = None THEN "None" ELSE self.src[1]

(* image_url: a src that starts with a slash is put after the base URL,   *)
(* when there is one                                                        *)
ImageUrl(self) ==
    IF self.src[1] = "/i.png" /\ self.base_url # None THEN "http://h/i.png" ELSE self.src[1]

(* requests.get raises MissingSchema for a URL without a scheme *)
HasScheme(image_url) == image_url # "/i.png"

(* image_to_terminal_art raises when the environment makes it, and when    *)
(* it multiplies a max_width_chars of None (core/image_render.py line 107)  *)
ArtRaises(self, env, target_w, target_h) ==
    \/ ~env.art
    \/ self.max_width = None /\ (target_w = None \/ target_h = None)

(* ImageElement.render: the value returned, the stream sys.stdout names    *)
(* when render returns, and the step that failed                            *)
ImageRender(self, env) ==
    LET fallback == [returned |-> <<"[Image: ", ImageLabel(self), "]">>, stdout |-> "terminal"]
    IN IF self.src = None THEN fallback @@ [failed |-> "resolve"]
       ELSE IF ~env.get \/ ~HasScheme(ImageUrl(self)) THEN fallback @@ [failed |-> "get"]
       ELSE IF ~env.status THEN fallback @@ [failed |-> "raise_for_status"]
       ELSE IF (self.width # None /\ ~IsInt(self.width[1]))
               \/ (self.height # None /\ ~IsInt(self.height[1]))
       THEN fallback @@ [failed |-> "size"]
       ELSE LET target_w == IF self.width # None /\ self.width[1].int # 0
                            THEN Some(self.width[1].int \div 4) ELSE None
                target_h == IF self.height # None /\ self.height[1].int # 0
                            THEN Some(self.height[1].int \div 5) ELSE None
            IN IF ArtRaises(self, env, target_w, target_h)
               THEN [returned |-> <<"[Image: ", ImageLabel(self), "]">>,
                     stdout |-> "output", failed |-> "image_to_terminal_art"]
               ELSE [returned |-> <<NL, "art", "[Image: ", ImageLabel(self), "]", NL>>,
                     stdout |-> "terminal", failed |-> "none"]

(* An image on a page: node is the ImageElement, call the step of render   *)
(* that failed, out the value render returned, the stream sys.stdout       *)
(* names and what the terminal received after render.                       *)
NewImage ==
    /\ node = None /\ raised = "none"
    /\ \E a \in ImageArgs : node' = Some(ImageInit(a))
    /\ call' = None
    /\ raised' = "none"
    /\ out' = None
    /\ UNCHANGED term

(* node.render(enable_color) for an ImageElement *)
RenderImage ==
    /\ node # None /\ out = None
    /\ node[1].kind = "Image"
    /\ \E env \in ImageEnvironments :
         LET r == ImageRender(node[1], env)
         IN /\ call' = Some([failed |-> r.failed])
            /\ out' = Some([returned |-> r.returned, stdout |-> r.stdout,
                            printed |-> FALSE, terminal |-> <<>>])
    /\ UNCHANGED <<term, node, raised>>

(* the Renderer prints what render returned and then the node after the    *)
(* image: print writes to the stream sys.stdout names                       *)
PrintSiblings ==
    /\ node # None /\ out # None
    /\ node[1].kind = "Image"
    /\ ~out[1].printed
    /\ out' = Some([out[1] EXCEPT !.printed = TRUE,
                                  !.terminal = IF out[1].stdout = "terminal"
                                               THEN out[1].returned \o <<"sibling">>
                                               ELSE <<>>])
    /\ UNCHANGED <<term, node, call, raised>>

ImageNext ==
    \/ NewImage
    \/ RenderImage
    \/ PrintSiblings
    \/ Discard

ImageSpec == WrapInit /\ [][ImageNext]_vars

----------------------------------------------------------------------------
(* Title and HorizontalRule                                                 *)

(* textwrap.wrap(text, width, drop_whitespace=False,                       *)
(* break_long_words=False) for a text of words and spaces: the chunks are  *)
(* the runs of spaces and the runs of other characters                      *)
RECURSIVE RunEnd(_, _)
RunEnd(s, i) ==
    IF i < Len(s) /\ ((s[i + 1] = " ") <=> (s[1] = " ")) THEN RunEnd(s, i + 1) ELSE i

RECURSIVE SplitChunks(_)
SplitChunks(s) ==
    IF s = <<>> THEN <<>>
    ELSE LET e == RunEnd(s, 1)
         IN <<SubSeq(s, 1, e)>> \o SplitChunks(SubSeq(s, e + 1, Len(s)))

(* the inner loop of TextWrapper._wrap_chunks: the chunks that fit the     *)
(* line, counted with len                                                   *)
RECURSIVE FillLine(_, _, _)
FillLine(chunks, cur_line, width) ==
    IF chunks # <<>> /\ Len(cur_line) + Len(Head(chunks)) <= width
    THEN FillLine(Tail(chunks), cur_line \o Head(chunks), width)
    ELSE [cur_line |-> cur_line, chunks |-> chunks]

(* TextWrapper._wrap_chunks for a width > 0: a chunk longer than the width *)
(* gets a line of its own (_handle_long_word without break_long_words)      *)
RECURSIVE WrapChunks(_, _)
WrapChunks(chunks, width) ==
    IF chunks = <<>> THEN <<>>
    ELSE LET filled == FillLine(chunks, <<>>, width)
             long == filled.chunks # <<>> /\ Len(Head(filled.chunks)) > width
                     /\ filled.cur_line = <<>>
             cur_line == IF long THEN Head(filled.chunks) ELSE filled.cur_line
             rest == IF long THEN Tail(filled.chunks) ELSE filled.chunks
         IN <<cur_line>> \o WrapChunks(rest, width)

(* TextWrapper._wrap_chunks raises ValueError("invalid width") *)
TextWrapRaises(width) == width <= 0

TextWrap(text, width) == WrapChunks(SplitChunks(text), width)

(* Title(text) *)
TitleTexts ==
    {<<>>, <<"a">>, <<"a", " ", "b", "c">>, <<"a", "b", " ", " ", "c", "d", "e", "f">>, Str10}

TitleInit(text) == [kind |-> "Title", text |-> text]

(* Title._visible_width *)
Title_visible_width(text) == wcswidth(StripSgr(text))

fixed_width_for_box == 6
min_box_width == 10

(* Title.render: the exception raised, or the lines of the box *)
TitleRender(self, terminal_width, enable_color) ==
    LET max_text_width == terminal_width - fixed_width_for_box - 2
        styled_text == IF enable_color THEN BOLD \o CYAN_FG \o self.text \o RESET ELSE self.text
    IN IF TextWrapRaises(max_text_width)
       THEN [raised |-> "ValueError", output_lines |-> <<>>]
       ELSE LET wrapped_lines == TextWrap(styled_text, max_text_width)
                actual_content_width ==
                    IF wrapped_lines = <<>> THEN 0
                    ELSE CHOOSE w \in {Title_visible_width(wrapped_lines[i]) : i \in DOMAIN wrapped_lines} :
                           \A i \in DOMAIN wrapped_lines : Title_visible_width(wrapped_lines[i]) <= w
                box_inner_width == Max(actual_content_width, min_box_width)
                top_border == <<"TL1">> \o Repeat("H1", box_inner_width + 4) \o <<"TR1">>
                bottom_border == <<"BL1">> \o Repeat("H1", box_inner_width + 4) \o <<"BR1">>
                middle_lines ==
                    IF wrapped_lines = <<>>
                    THEN << <<"V1">> \o Spaces(box_inner_width + 4) \o <<"V1">> >>
                    ELSE [i \in DOMAIN wrapped_lines |->
                            <<"V1", " ", " ">> \o wrapped_lines[i]
                            \o Spaces(box_inner_width - Title_visible_width(wrapped_lines[i]) + 2)
                            \o <<"V1">>]
            IN [raised |-> "none",
                output_lines |-> <<top_border>> \o middle_lines \o <<bottom_border>>]

(* HorizontalRule.render *)
HorizontalRuleRender(terminal_width, enable_color) ==
    IF enable_color THEN <<WHITE_FG \o Repeat("H1", terminal_width) \o RESET>>
    ELSE <<Repeat("H1", terminal_width)>>

(* the widths of the terminals on which titles and rules are rendered *)
NarrowTermWidths == {1, 8, 9, 12, 80}

(* The nodes of a page rendered on terminals of every width: titles,       *)
(* rules and tables.                                                        *)
NarrowInit == /\ term \in NarrowTermWidths
              /\ node = None
              /\ call = None
              /\ raised = "none"
              /\ out = None

(* Title(text) *)
NewTitle ==
    /\ node = None /\ raised = "none"
    /\ \E text \in TitleTexts : node' = Some(TitleInit(text))
    /\ call' = None
    /\ raised' = "none"
    /\ out' = None
    /\ UNCHANGED term

(* node.render(enable_color) for a Title *)
RenderTitle ==
    /\ node # None /\ out = None /\ raised = "none"
    /\ node[1].kind = "Title"
    /\ \E enable_color \in BOOLEAN :
         LET r == TitleRender(node[1], term, enable_color)
         IN /\ raised' = r.raised
            /\ out' = IF r.raised = "none" THEN Some([output_lines |-> r.output_lines])
                      ELSE None
    /\ UNCHANGED <<term, node, call>>

(* HorizontalRule() *)
NewHorizontalRule ==
    /\ node = None /\ raised = "none"
    /\ node' = Some([kind |-> "HorizontalRule"])
    /\ call' = None
    /\ raised' = "none"
    /\ out' = None
    /\ UNCHANGED term

(* node.render(enable_color) for a HorizontalRule *)
RenderHorizontalRule ==
    /\ node # None /\ out = None /\ raised = "none"
    /\ node[1].kind = "HorizontalRule"
    /\ \E enable_color \in BOOLEAN :
         out' = Some([output_lines |-> HorizontalRuleRender(term, enable_color)])
    /\ UNCHANGED <<term, node, call, raised>>

NarrowNext ==
    \/ NewTitle
    \/ RenderTitle
    \/ NewHorizontalRule
    \/ RenderHorizontalRule
    \/ NewTable
    \/ RenderTable
    \/ Discard

NarrowSpec == NarrowInit /\ [][NarrowNext]_vars

----------------------------------------------------------------------------
(* The glyph rasterizer of core/braillify.py.  A bitmap is a sequence of   *)
(* rows of bits; a line of the output is a sequence of cells, each the     *)
(* code point of a braille character and the colour it is wrapped in.      *)

MaxBitmapHeight == 5
MaxBitmapWidth == 3
MaxTextLen == 2

braille_lookup == << <<1, 8>>, <<2, 16>>, <<4, 32>>, <<64, 128>> >>

(* an encoding in which the two lowest dots of the left column share a bit *)
to_braille_block_SharedBit(block) ==
    10240 + SumSeq([k \in 1..8 |->
                      LET y == ((k - 1) \div 2) + 1
                          x == ((k - 1) % 2) + 1
                      IN IF block[y][x] # 0
                         THEN (IF y = 4 /\ x = 1 THEN 4 ELSE braille_lookup[y][x])
                         ELSE 0])

(* to_braille_block: the code point 0x2800 + the bits of the dots set *)
to_braille_block(block) ==
    10240 + SumSeq([k \in 1..8 |->
                      LET y == ((k - 1) \div 2) + 1
                          x == ((k - 1) % 2) + 1
                      IN IF block[y][x] # 0 THEN braille_lookup[y][x] ELSE 0])

(* a rasterizer that drops an odd last column instead of padding it *)
render_braille_bitmap_NoWidthPadding(bitmap, color_func) ==
    LET h0 == Len(bitmap)
        w == IF h0 = 0 THEN 0
             ELSE CHOOSE n \in {Len(bitmap[y]) : y \in 1..h0} : \A y \in 1..h0 : Len(bitmap[y]) <= n
        h == IF h0 % 4 # 0 THEN h0 + (4 - (h0 % 4)) ELSE h0
        padded == [y \in 1..h |-> [x \in 1..w |->
                     IF y <= h0 /\ x <= Len(bitmap[y]) THEN bitmap[y][x] ELSE 0]]
    IN [h |-> h, w |-> w, bitmap |-> padded,
        out_lines |-> [by \in 1..(h \div 4) |-> [bx \in 1..(w \div 2) |->
            [char |-> to_braille_block([y \in 1..4 |-> [x \in 1..2 |->
                          padded[4 * (by - 1) + y][2 * (bx - 1) + x]]]),
             color |-> color_func]]]]

(* render_braille_bitmap: the rows are extended to the widest, the height  *)
(* padded to a multiple of 4, the width to a multiple of 2, and every      *)
(* block of 4 rows by 2 columns becomes one braille character               *)
render_braille_bitmap(bitmap, color_func) ==
    LET h0 == Len(bitmap)
        w0 == IF h0 = 0 THEN 0
              ELSE CHOOSE n \in {Len(bitmap[y]) : y \in 1..h0} : \A y \in 1..h0 : Len(bitmap[y]) <= n
        h == IF h0 % 4 # 0 THEN h0 + (4 - (h0 % 4)) ELSE h0
        w == IF w0 % 2 # 0 THEN w0 + 1 ELSE w0
        padded == [y \in 1..h |-> [x \in 1..w |->
                     IF y <= h0 /\ x <= Len(bitmap[y]) THEN bitmap[y][x] ELSE 0]]
    IN [h |-> h, w |-> w, bitmap |-> padded,
        out_lines |-> [by \in 1..(h \div 4) |-> [bx \in 1..(w \div 2) |->
            [char |-> to_braille_block([y \in 1..4 |-> [x \in 1..2 |->
                          padded[4 * (by - 1) + y][2 * (bx - 1) + x]]]),
             color |-> color_func]]]]

(* the glyphs of core/font.py: 8 rows of 6, or of 5, bits for a character  *)
(* of the font                                                              *)
FontChars == {"A", "I"}
GlyphBit(ch, y, x) == IF ch = "A" THEN (IF (x + y) % 2 = 0 THEN 1 ELSE 0)
                      ELSE (IF x = 3 THEN 1 ELSE 0)
font_8x6 == [ch \in FontChars |-> [y \in 1..8 |-> [x \in 1..6 |-> GlyphBit(ch, y, x)]]]
font_5x8 == [ch \in FontChars |-> [y \in 1..8 |-> [x \in 1..5 |-> GlyphBit(ch, y, x)]]]

(* the bitmap braillify builds: the text is cut into lines of              *)
(* chars_per_line characters, every line is a band of letter_h rows, and   *)
(* the bands are stacked, extended to the widest                            *)
BrailleBitmap(text, term_cols, font_mode) ==
    LET selected_font == IF font_mode = "5x8" THEN font_5x8 ELSE font_8x6
        letter_w == IF font_mode = "5x8" THEN 5 ELSE 6
        letter_h == 8
        spacing == 1
        char_w == letter_w + spacing
        chars_per_line == Max(1, (term_cols * 2) \div char_w)
        n_lines == (Len(text) + chars_per_line - 1) \div chars_per_line
        line(l) == SubSeq(text, (l - 1) * chars_per_line + 1, Min(Len(text), l * chars_per_line))
        max_width == IF n_lines = 0 THEN 0 ELSE Len(line(1)) * char_w
    IN [r \in 1..(n_lines * letter_h) |->
          LET l == ((r - 1) \div letter_h) + 1
              y == ((r - 1) % letter_h) + 1
          IN [c \in 1..max_width |->
                LET i == ((c - 1) \div char_w) + 1
                    x == ((c - 1) % char_w) + 1
                IN IF i <= Len(line(l)) /\ x <= letter_w /\ line(l)[i] \in DOMAIN selected_font
                   THEN selected_font[line(l)[i]][y][x] ELSE 0]]

(* braillify(text, color, font_mode): color=True colours every character 27 *)
braillify(text, term_cols, color, font_mode) ==
    LET full_bitmap == BrailleBitmap(text, term_cols, font_mode)
    IN [full_bitmap |-> full_bitmap] @@
       render_braille_bitmap(full_bitmap, IF color THEN Some(27) ELSE None)

(* the bitmaps handed to render_braille_bitmap on their own: rows of       *)
(* different lengths, filled with one of two patterns                       *)
BitPatterns == {"ones", "checks"}
PatternBit(p, y, x) == IF p = "ones" THEN 1 ELSE (x + y) % 2
Bitmaps(max_h, max_w) ==
    {[y \in 1..h |-> [x \in 1..lens[y] |-> PatternBit(p, y, x)]] :
        <<h, lens, p>> \in UNION {{<<h, lens, p>> : lens \in [1..h -> 0..max_w], p \in BitPatterns} :
                                     h \in 0..max_h}}

(* the blocks of 4 rows by 2 columns of pixels *)
Blocks == [1..4 -> [1..2 -> {0, 1}]]

BrailleTexts(len) == UNION {[1..n -> FontChars \cup {"?"}] : n \in 0..len}
FontModes == {"6x8", "5x8"}

(* the terminals on which headings are rasterized *)
BrailleInit == /\ term \in {3, 80}
               /\ node = None
               /\ call = None
               /\ raised = "none"
               /\ out = None

(* render_braille_bitmap(bitmap), called on its own: node records the      *)
(* bitmap, out the padded bitmap and the lines                              *)
RenderBitmap ==
    /\ node = None /\ raised = "none"
    /\ \E bitmap \in Bitmaps(MaxBitmapHeight, MaxBitmapWidth) :
         /\ node' = Some([kind |-> "bitmap", bitmap |-> bitmap])
         /\ out' = Some(render_braille_bitmap(bitmap, None))
    /\ call' = None
    /\ raised' = "none"
    /\ UNCHANGED term

(* braillify(text, color, font_mode) on the terminal as it is *)
Braillify ==
    /\ node = None /\ raised = "none"
    /\ \E text \in BrailleTexts(MaxTextLen), color \in BOOLEAN, font_mode \in FontModes :
         LET r == braillify(text, term, color, font_mode)
         IN /\ node' = Some([kind |-> "braillify", text |-> text, font_mode |-> font_mode,
                             bitmap |-> r.full_bitmap])
            /\ out' = Some([h |-> r.h, w |-> r.w, bitmap |-> r.bitmap,
                            out_lines |-> r.out_lines])
    /\ call' = None
    /\ raised' = "none"
    /\ UNCHANGED term

(* to_braille_block(block), called on its own: node records the block,   *)
(* out the code point                                                      *)
EncodeBlock ==
    /\ node = None /\ raised = "none"
    /\ \E block \in Blocks :
         /\ node' = Some([kind |-> "block", block |-> block])
         /\ out' = Some([char |-> to_braille_block(block)])
    /\ call' = None
    /\ raised' = "none"
    /\ UNCHANGED term

BrailleNext ==
    \/ RenderBitmap
    \/ Braillify
    \/ EncodeBlock
    \/ Discard

BrailleSpec == BrailleInit /\ [][BrailleNext]_vars

----------------------------------------------------------------------------
(* Properties of Box.render                                                *)

BoxRendered == out # None /\ node # None /\ node[1].kind \in {"Box", "Button"}
Bordered == node[1].border_style \in {1, 2}
BorderCols == IF Bordered THEN 2 ELSE 0
Overhead == BorderCols + 2 * node[1].padding_x
ChildLines == RenderedChildLines(node[1].elements)
StartX == IF node[1].start_x_init # None THEN node[1].start_x_init[1] ELSE 0

RowWidths(rows) == {Box_visible_width(rows[i]) : i \in DOMAIN rows}

(* C1: every content row, the text between the two vertical border glyphs,  *)
(* is exactly as wide as the box's inner width, box width minus the border  *)
(* columns.                                                                 *)
C1_ContentRowsFillInnerWidth ==
    BoxRendered =>
        \A i \in DOMAIN out[1].final_content_lines :
            Box_visible_width(out[1].final_content_lines[i]) = out[1].box_width - BorderCols

(* C2: in a bordered box the top border (titled or not), the bottom border  *)
(* and every content or filler row have the same visible width.             *)
C2_BorderSymmetry ==
    (BoxRendered /\ Bordered) => Cardinality(RowWidths(out[1].full_box_output)) = 1

(* C3 (Scenario A): one 10-cell child line, padding_x 1, thin border,       *)
(* start_x 0, no end_x, 80 columns.                                         *)
ScenarioA ==
    /\ BoxRendered
    /\ term = 80
    /\ node[1].kind = "Box"
    /\ node[1].elements = <<Str10>>
    /\ node[1].padding_x = 1 /\ node[1].margin_x = 0
    /\ node[1].border_style = 1
    /\ node[1].box_title = None
    /\ node[1].start_x_init = Some(0) /\ node[1].end_x_init = None

(* C3 as stated: the box is sized to its content, 10 inside and 14 overall  *)
C3_ScenarioA_ContentSized ==
    ScenarioA => /\ out[1].content_area_width = 10
                 /\ out[1].box_width = 14
                 /\ out[1].box_start_x = 0

(* C3 amended: with end_x omitted the box of Scenario A spans the terminal: *)
(* content width 76, box width 80, anchored at column 0, every row 80 wide  *)
C3_ScenarioA_SpansTerminal ==
    ScenarioA => /\ out[1].content_area_width = 76
                 /\ out[1].box_width = 80
                 /\ out[1].box_start_x = 0
                 /\ RowWidths(out[1].full_box_output) = {80}

C3_Witness == ScenarioA

(* C4: with end_x omitted and no child line wider than the available area,  *)
(* the box is terminal_width - start_x - 2*margin_x wide from border to     *)
(* border.                                                                  *)
AvailableWidth == term - StartX - 2 * node[1].margin_x
EndXOmittedChildrenFit ==
    /\ BoxRendered
    /\ node[1].end_x_init = None
    /\ MaxWidth(ChildLines) + Overhead <= AvailableWidth
TitleFits ==
    Truthy(node[1].box_title) =>
        Box_visible_width(node[1].box_title[1]) + 2 + Overhead <= AvailableWidth

C5_WithinTerminal ==
    BoxRendered =>
        \A w \in RowWidths(out[1].full_box_output) : out[1].box_start_x + w <= term

(* C6: a child line narrower than the content width is placed by            *)
(* element_alignment between the two paddings: with n = content width -     *)
(* line width, left gives n spaces after it, center floor(n/2) before and   *)
(* the rest after, right n before.                                          *)
AlignedRow(line, n) ==
    LET p == Spaces(node[1].padding_x)
        a == node[1].element_alignment
        before == IF a = "left" THEN 0 ELSE IF a = "center" THEN n \div 2 ELSE n
    IN p \o Spaces(before) \o line \o Spaces(n - before) \o p

C6_AlignmentPlacement ==
    BoxRendered =>
        \A i \in DOMAIN ChildLines :
            LET n == out[1].content_area_width - Box_visible_width(ChildLines[i])
            IN n > 0 => out[1].final_content_lines[i] = AlignedRow(ChildLines[i], n)

(* C7: without end_y the box is content lines + 2*padding_y + border rows   *)
(* high; an end_y that asks for more adds the surplus as blank rows,        *)
(* floor(surplus/2) above the content and the rest below, and the box is    *)
(* as high as end_y asks.                                                   *)
ContentLineCount == IF ChildLines = <<>> THEN 1 ELSE Len(ChildLines)
RequiredHeight == ContentLineCount + 2 * node[1].padding_y + BorderCols
StartY == IF node[1].start_y_init # None THEN node[1].start_y_init[1] ELSE 0
EndYHeight == (node[1].end_y_init[1] - node[1].margin_y) - (StartY + node[1].margin_y) + 1
Surplus == EndYHeight - RequiredHeight
IsBlankRow(row) ==
    \A k \in DOMAIN row : row[k] \in {" ", "V1", "V2", ESC, "[", "0", "3", "7", "m"}
ContentRowAt(k) ==
    LET r == out[1].full_box_output[k]
        c == IF out[1].enable_color THEN WHITE_FG ELSE <<>>
        z == IF out[1].enable_color THEN RESET ELSE <<>>
        v == node[1].border_chars.vertical
    IN {i \in DOMAIN out[1].final_content_lines :
          r = c \o v \o z \o out[1].final_content_lines[i] \o c \o v \o z}

C7_HeightResolution ==
    BoxRendered =>
        LET rows == out[1].full_box_output
            first == (IF Bordered THEN 1 ELSE 0) + node[1].padding_y
        IN /\ node[1].end_y_init = None => Len(rows) = RequiredHeight
           /\ (node[1].end_y_init # None /\ Surplus > 0) =>
                 /\ Len(rows) = EndYHeight
                 /\ \A i \in 1..ContentLineCount :
                       i \in ContentRowAt(first + Surplus \div 2 + i)
                 /\ \A k \in 1..(Surplus \div 2) : IsBlankRow(rows[first + k])
                 /\ \A k \in 1..(Surplus - Surplus \div 2) :
                       IsBlankRow(rows[first + Surplus \div 2 + ContentLineCount + k])

C7_Witness ==
    /\ BoxRendered /\ Bordered
    /\ node[1].end_y_init # None /\ Surplus = 3
    /\ node[1].padding_y = 1
    /\ ContentLineCount = 2

(* C8: a constructor call with an alignment outside left/center/right or a  *)
(* border style outside 0/1/2 raises ValueError and creates no node; every  *)
(* node that exists has the valid alignment and border style it was given.  *)
C8_InvalidArgumentsRejected ==
    /\ (call # None /\ (\/ call[1].element_alignment \notin {"left", "center", "right"}
                        \/ call[1].border_style \notin {0, 1, 2}))
          => (raised = "ValueError" /\ node = None)
    /\ node # None =>
          /\ node[1].element_alignment \in {"left", "center", "right"}
          /\ node[1].border_style \in {0, 1, 2}
          /\ call # None
          /\ node[1].element_alignment = call[1].element_alignment
          /\ node[1].border_style = call[1].border_style

C8_Witness ==
    /\ raised = "ValueError" /\ node = None
    /\ call[1].cls = "Button" /\ call[1].border_style = 3

----------------------------------------------------------------------------
(* Properties of TableElement.render                                       *)

TableRendered == out # None /\ node # None /\ node[1].kind = "Table" /\ ~out[1].empty
AllCells == <<node[1].headers>> \o node[1].rows
NumCols == CHOOSE n \in 0..3 : /\ \A r \in DOMAIN AllCells : Len(AllCells[r]) <= n
                               /\ (n > 0 => \E r \in DOMAIN AllCells : Len(AllCells[r]) = n)
CellWidthsOfColumn(i) ==
    {Table_visible_width(Concat(AllCells[r][i])) :
        r \in {r \in DOMAIN AllCells : i <= Len(AllCells[r])}}
WidestCell(i) == CHOOSE w \in CellWidthsOfColumn(i) : \A v \in CellWidthsOfColumn(i) : v <= w
NaturalWidths == [i \in 1..NumCols |-> WidestCell(i) + 2]
Fits == SumSeq(NaturalWidths) + NumCols + 1 <= node[1].max_width
BorderLines ==
    {out[1].output_lines[k] : k \in {k \in DOMAIN out[1].output_lines :
                                        out[1].output_lines[k][1] \in {"TL1", "TLT", "BL1"}}}
BorderLineWidths == {Table_visible_width(b) : b \in BorderLines}
ScenarioB ==
    /\ TableRendered
    /\ node[1].headers = <<CellA, CellBB>>
    /\ node[1].rows = << <<Cell1, Cell22>> >>
    /\ node[1].max_width = 80

(* C9: a table that fits its width budget gives every column the width of  *)
(* its widest cell, header row included, plus 2, and every border line is  *)
(* the sum of the column widths + the number of columns + 1 wide; for      *)
(* headers A, BB and the row 1, 22 that is 3 and 4, and 10.                *)
C9_NaturalWidthsWhenFits ==
    /\ (TableRendered /\ Fits) =>
          /\ out[1].column_widths = NaturalWidths
          /\ BorderLineWidths = {SumSeq(out[1].column_widths) + NumCols + 1}
    /\ ScenarioB => /\ out[1].column_widths = <<3, 4>>
                    /\ BorderLineWidths = {10}

(* C9 amended: ... for a table that has at least one column.               *)
C9_NaturalWidthsWhenFitsWithColumns ==
    /\ (TableRendered /\ Fits /\ NumCols >= 1) =>
          /\ out[1].column_widths = NaturalWidths
          /\ BorderLineWidths = {SumSeq(out[1].column_widths) + NumCols + 1}
    /\ ScenarioB => /\ out[1].column_widths = <<3, 4>>
                    /\ BorderLineWidths = {10}

C9_Witness ==
    /\ TableRendered /\ Fits
    /\ node[1].headers = <<CellStr10, CellStyled, CellCJK>>
    /\ node[1].rows = << <<Cell1, Cell22>> >>
    /\ out[1].column_widths = <<12, 4, 6>>

(* C10: when the table does not fit its budget, no negotiated column width *)
(* is below 6, whatever the proportional share of a column comes to, and   *)
(* the borders are drawn with the negotiated widths.                        *)
C10_ShrinkFloor ==
    (TableRendered /\ ~Fits) =>
        /\ Len(out[1].column_widths) = NumCols
        /\ \A i \in 1..NumCols : out[1].column_widths[i] >= 6
        /\ NumCols >= 1 =>
              /\ BorderLineWidths = {SumSeq(out[1].column_widths) + NumCols + 1}
              /\ \A w \in BorderLineWidths : w >= 7 * NumCols + 1

C10_Witness ==
    /\ TableRendered /\ ~Fits
    /\ NumCols = 3
    /\ node[1].max_width < NumCols + 1
    /\ out[1].column_widths = <<6, 6, 6>>

(* C11: a row is emitted as max(wrapped line count of its cells) physical   *)
(* lines; every one of them holds every cell of the row, a cell that has    *)
(* no such line being blank over its whole column width; the header row,    *)
(* if there is one, is followed by exactly one separator border.            *)
RowTexts(r) == [i \in 1..Len(AllCells[r]) |-> Concat(AllCells[r][i])]
WrappedCount(r, i) == Len(Table_wrap_cell(RowTexts(r)[i], out[1].column_widths[i] - 2))
RowLineCount(r) ==
    IF AllCells[r] = <<>> THEN 0
    ELSE CHOOSE n \in {WrappedCount(r, i) : i \in 1..Len(AllCells[r])} :
            \A i \in 1..Len(AllCells[r]) : WrappedCount(r, i) <= n
RECURSIVE LinesBefore(_)
LinesBefore(r) == IF r = 1 THEN 1
                  ELSE LinesBefore(r - 1) + RowLineCount(r - 1)
                       + (IF r = 2 /\ node[1].headers # <<>> THEN 1 ELSE 0)
(* the cells of a physical line: the texts between two vertical glyphs *)
CellsOfLine(line) ==
    LET P == {k \in 1..Len(line) : line[k] = "V1"}
    IN {<<Cardinality({x \in P : x <= p}),
          SubSeq(line, p + 1, (CHOOSE q \in P : q > p /\ \A x \in P : x > p => q <= x) - 1)>> :
          p \in {p \in P : \E q \in P : q > p}}
SeparatorLines == {k \in DOMAIN out[1].output_lines : out[1].output_lines[k][1] = "TLT"}

C11_RowSpansTallestCell ==
    TableRendered =>
        /\ Len(out[1].output_lines) = LinesBefore(Len(AllCells)) + RowLineCount(Len(AllCells)) + 1
                                      + (IF Len(AllCells) = 1 /\ node[1].headers # <<>> THEN 1 ELSE 0)
        /\ SeparatorLines = IF node[1].headers # <<>> THEN {LinesBefore(1) + RowLineCount(1) + 1}
                            ELSE {}
        /\ \A r \in DOMAIN AllCells : \A k \in 1..RowLineCount(r) :
              LET line == out[1].output_lines[LinesBefore(r) + k]
                  cells == CellsOfLine(line)
              IN /\ line[1] = "V1" /\ line[Len(line)] = "V1"
                 /\ {c[1] : c \in cells} = 1..Len(AllCells[r])
                 /\ \A c \in cells :
                       k > WrappedCount(r, c[1]) =>
                           StripSgr(c[2]) = Spaces(out[1].column_widths[c[1]])

C11_Witness ==
    /\ TableRendered
    /\ node[1].headers # <<>>
    /\ \E r \in 2..Len(AllCells) :
          /\ RowLineCount(r) = 3
          /\ \E i \in 1..Len(AllCells[r]) : WrappedCount(r, i) = 1

----------------------------------------------------------------------------
(* Properties of TableElement._wrap_cell                                   *)

WrapCalled == out # None /\ node # None /\ node[1].kind = "_wrap_cell"
(* a line without its trailing reset *)
WithoutReset(line) ==
    IF Len(line) >= 4 /\ SubSeq(line, Len(line) - 3, Len(line)) = RESET
    THEN SubSeq(line, 1, Len(line) - 4) ELSE line
LineWidth(line) == Table_visible_width(WithoutReset(line))
WidestCharacter(s) == IF \E k \in DOMAIN s : s[k] = CJK THEN 2 ELSE 1
WrapLinesWithin ==
    \A k \in DOMAIN out[1].lines : LineWidth(out[1].lines[k]) <= node[1].width
(* a line breaks only before a character that no longer fits the line *)
WrapBreaksWhole ==
    \A k \in 1..(Len(out[1].lines) - 1) :
        LET next == StripSgr(out[1].lines[k + 1])
        IN /\ next # <<>>
           /\ LineWidth(out[1].lines[k]) + wcwidth(next[1]) > node[1].width

(* C12: every line returned by _wrap_cell(s, w), w >= 1, is at most w      *)
(* wide without its trailing reset, and a character that does not fit the  *)
(* rest of a line starts the next line whole.                               *)
C12_WrapWithinWidth ==
    WrapCalled => (WrapLinesWithin /\ WrapBreaksWhole)

(* C12 amended: ... for every w >= 1 that is at least as wide as the       *)
(* widest character of s.                                                   *)
C12_WrapWithinWidthOfCharacter ==
    (WrapCalled /\ node[1].width >= WidestCharacter(StripSgr(node[1].text)))
        => (WrapLinesWithin /\ WrapBreaksWhole)

C12_Witness ==
    /\ WrapCalled
    /\ node[1].width = 2
    /\ node[1].text = <<"a">> \o BOLD \o <<CJK, "a">>
    /\ Len(out[1].lines) = 3

(* the positions of the visible characters of s, and the style codes in    *)
(* force at position p of s: the codes since the last reset before p       *)
VisiblePositions(s) ==
    {p \in 1..Len(s) : \A m \in SgrMatches(s) : p < m[1] \/ p > m[2]}
ActiveStyle(s, p) ==
    LET codes == {m \in SgrMatches(s) : m[1] < p}
        resets == {m \in codes : SubSeq(s, m[1], m[2]) = RESET}
    IN {SubSeq(s, m[1], m[2]) : m \in {m \in codes \ resets : \A z \in resets : z[1] < m[1]}}
(* the position in the text wrapped of the character at position p of line k *)
VisibleBeforeLine(k) ==
    Cardinality(UNION {{<<j, q>> : q \in VisiblePositions(out[1].lines[j])} :
                          j \in 1..(k - 1)})
OriginalPosition(k, p) ==
    LET rank == VisibleBeforeLine(k)
                + Cardinality({q \in VisiblePositions(out[1].lines[k]) : q <= p})
    IN CHOOSE o \in VisiblePositions(node[1].text) :
          Cardinality({q \in VisiblePositions(node[1].text) : q <= o}) = rank

(* C13: on every continuation line each character stands under exactly    *)
(* the style codes that were in force for it in the string wrapped, and a   *)
(* line in which a style is opened ends with a reset.                       *)
C13_ContinuationKeepsStyle ==
    WrapCalled =>
        /\ \A k \in 2..Len(out[1].lines) : \A p \in VisiblePositions(out[1].lines[k]) :
              ActiveStyle(out[1].lines[k], p)
                  = ActiveStyle(node[1].text, OriginalPosition(k, p))
        /\ \A k \in DOMAIN out[1].lines :
              (\E m \in SgrMatches(out[1].lines[k]) :
                   SubSeq(out[1].lines[k], m[1], m[2]) # RESET)
                 => /\ Len(out[1].lines[k]) >= 4
                    /\ SubSeq(out[1].lines[k], Len(out[1].lines[k]) - 3,
                              Len(out[1].lines[k])) = RESET

----------------------------------------------------------------------------
(* Properties of Box._visible_width *)

WidthMeasured == out # None /\ node # None /\ node[1].kind = "_visible_width"

(* C14: width idempotence.  For every string, whole, cut short and nested  *)
(* escape sequences included, the visible width of the string with the     *)
(* matches of ANSI_ESCAPE removed once equals the visible width of the      *)
(* string.                                                                  *)
C14_WidthIdempotence ==
    WidthMeasured => out[1].stripped_width = out[1].width

----------------------------------------------------------------------------
(* Properties of the Browser's anchor registry *)

Displayed == IsBrowser /\ out # None

(* C15: after every command that displays a document the registry holds   *)
(* exactly the anchors of the document just parsed, under the ids 1..n in  *)
(* the order of their construction, and nothing of an earlier document.    *)
C15_RegistryIsCurrentDocument ==
    Displayed =>
        /\ DOMAIN node[1].current_anchors = 1..Len(out[1].document)
        /\ \A i \in 1..Len(out[1].document) :
              node[1].current_anchors[i] = out[1].document[i]

----------------------------------------------------------------------------
(* Properties of the Renderer *)

DocumentRendered == out # None /\ node # None /\ node[1].kind = "Document"

(* the children of a node, container or paragraph *)
ChildrenOf(e) ==
    IF e.kind = "Div" THEN e.elements
    ELSE IF e.kind = "Paragraph" THEN e.content_parts
    ELSE <<>>

(* the characters of the text of the nodes that no disabled tag hides: the *)
(* node's own tag and the tag of every node around it are enabled           *)
RECURSIVE EnabledText(_, _)
EnabledText(config, e) ==
    IF ~should_render_tag(config, e.tag_type) THEN {}
    ELSE IF e.kind \in {"TextNode", "Anchor"} THEN {e.text[i] : i \in 1..Len(e.text)}
    ELSE UNION {EnabledText(config, ChildrenOf(e)[i]) : i \in 1..Len(ChildrenOf(e))}

PrintedText == {out[1].printed[i] : i \in 1..Len(out[1].printed)} \cap TextChars

(* C16: the per-tag predicate is consulted at every depth.  A node whose   *)
(* tag is disabled prints nothing, and neither do its children, also when  *)
(* it is nested in an enabled container: every character of text printed   *)
(* belongs to a node whose tag and whose containers' tags are all enabled.  *)
C16_DisabledNodesPrintNothing ==
    DocumentRendered =>
        PrintedText \subseteq
            UNION {EnabledText(node[1].config, node[1].elements[i]) :
                      i \in 1..Len(node[1].elements)}

----------------------------------------------------------------------------
(* Properties of rendering on a terminal that is resized *)

(* the table was constructed without a width of its own *)
TerminalWide == call # None /\ call[1].cls = "TableElement" /\ call[1].max_width \in {None, Some(0)}

(* C17: every render uses the terminal's dimensions as they are at render  *)
(* time.  The lines a TableElement without a width of its own has rendered *)
(* are the lines the terminal's present width gives, whatever the width    *)
(* was when the table was constructed or rendered before.                   *)
C17_RenderUsesPresentWidth ==
    (out # None /\ node # None /\ node[1].kind = "Table" /\ TerminalWide) =>
        \E enable_color \in BOOLEAN :
            out[1].output_lines =
                TableRender([node[1] EXCEPT !.max_width = term], enable_color).output_lines

----------------------------------------------------------------------------
(* Properties of ImageElement.render *)

ImageRendered == out # None /\ node # None /\ node[1].kind = "Image"

(* C18: a failure at any step of ImageElement.render does not propagate.   *)
(* render returns the fallback token [Image: <alt or src>], sys.stdout is  *)
(* the terminal's stream when render returns, and what is printed after    *)
(* the image reaches the terminal.                                          *)
C18_ImageFailureIsContained ==
    (ImageRendered /\ call[1].failed # "none") =>
        /\ out[1].returned = <<"[Image: ", ImageLabel(node[1]), "]">>
        /\ out[1].stdout = "terminal"
        /\ out[1].printed => out[1].terminal = out[1].returned \o <<"sibling">>

----------------------------------------------------------------------------
(* Properties of rendering degenerate input *)

(* C19: rendering never fails on degenerate input.  On a terminal of any   *)
(* width, with empty text and empty tables, render raises nothing and      *)
(* returns its lines, and a bordered block (a title, a table that is not   *)
(* empty) is at least 2 rows high.                                          *)
C19_RenderNeverRaises ==
    /\ node # None => raised = "none"
    /\ (out # None /\ node # None /\ node[1].kind = "Title") => Len(out[1].output_lines) >= 2
    /\ (out # None /\ node # None /\ node[1].kind = "Table" /\ ~out[1].empty) =>
          Len(out[1].output_lines) >= 2

----------------------------------------------------------------------------
(* Properties of the glyph rasterizer *)

Rasterized == out # None /\ node # None /\ node[1].kind \in {"bitmap", "braillify"}

(* the height of the bitmap handed to the rasterizer and the length of its *)
(* longest row                                                              *)
BitmapHeight == Len(node[1].bitmap)
BitmapWidth ==
    IF node[1].bitmap = <<>> THEN 0
    ELSE CHOOSE n \in 0..200 :
           /\ \A y \in DOMAIN node[1].bitmap : Len(node[1].bitmap[y]) <= n
           /\ \E y \in DOMAIN node[1].bitmap : Len(node[1].bitmap[y]) = n

CeilDiv(n, d) == (n + d - 1) \div d

(* one character in the 6x8 font on a terminal of 80 columns *)
ScenarioGlyph ==
    /\ Rasterized /\ node[1].kind = "braillify"
    /\ Len(node[1].text) = 1 /\ node[1].font_mode = "6x8" /\ term = 80

(* C20: the rasterizer pads the bitmap to a height that is a multiple of 4 *)
(* and a width that is a multiple of 2, keeping the pixels it was given,   *)
(* and emits ceil(height / 4) lines of ceil(width / 2) characters.  One    *)
(* character of the 6x8 font on 80 columns: 8 rows before and after the    *)
(* padding, a width of 7 padded to 8, 2 lines of 4 characters.              *)
C20_RasterizerPadding ==
    /\ Rasterized =>
          /\ out[1].h % 4 = 0 /\ out[1].h = 4 * CeilDiv(BitmapHeight, 4)
          /\ out[1].w % 2 = 0 /\ out[1].w = 2 * CeilDiv(BitmapWidth, 2)
          /\ Len(out[1].bitmap) = out[1].h
          /\ \A y \in 1..out[1].h :
                /\ Len(out[1].bitmap[y]) = out[1].w
                /\ \A x \in 1..out[1].w :
                      out[1].bitmap[y][x] =
                          IF y <= BitmapHeight /\ x <= Len(node[1].bitmap[y])
                          THEN node[1].bitmap[y][x] ELSE 0
          /\ Len(out[1].out_lines) = CeilDiv(BitmapHeight, 4)
          /\ \A l \in DOMAIN out[1].out_lines :
                Len(out[1].out_lines[l]) = CeilDiv(BitmapWidth, 2)
    /\ ScenarioGlyph =>
          /\ BitmapHeight = 8 /\ out[1].h = 8
          /\ BitmapWidth = 7 /\ out[1].w = 8
          /\ Len(out[1].out_lines) = 2
          /\ \A l \in 1..2 : Len(out[1].out_lines[l]) = 4

C20_Witness ==
    /\ ScenarioGlyph
    /\ node[1].text = <<"A">>
    /\ Len(out[1].out_lines) = 2

----------------------------------------------------------------------------
(* Properties of the braille encoding *)

BlockEncoded == out # None /\ node # None /\ node[1].kind = "block"

(* the dot (y, x) of a code point, read back from its bits *)
DotOf(char, y, x) == ((char - 10240) \div braille_lookup[y][x]) % 2

(* the width of a character with its spacing, and the characters of a line *)
GlyphCharW == IF node[1].font_mode = "5x8" THEN 6 ELSE 7
GlyphCharsPerLine == Max(1, (term * 2) \div GlyphCharW)

(* the pixel (r, c) of the bitmap lies in no glyph: in a character the     *)
(* font does not have, or beyond the characters of its line                *)
NoGlyphAt(r, c) ==
    LET i == (c - 1) \div GlyphCharW
        idx == ((r - 1) \div 8) * GlyphCharsPerLine + i + 1
    IN \/ i >= GlyphCharsPerLine
       \/ idx > Len(node[1].text)
       \/ node[1].text[idx] \notin FontChars

(* C21: a block of 2x4 pixels becomes the one code point 0x2800 + bits,    *)
(* one distinct bit of the lookup table per pixel set: the code point lies *)
(* in 0x2800..0x28FF, its bits give the block back, so no other block has  *)
(* the same code point, and a character without a glyph in the font        *)
(* contributes only pixels of zero, its cells being the blank U+2800.      *)
C21_BrailleEncoding ==
    /\ BlockEncoded =>
          /\ out[1].char \in 10240..10495
          /\ \A y \in 1..4, x \in 1..2 : DotOf(out[1].char, y, x) = node[1].block[y][x]
          /\ \A other \in Blocks : other # node[1].block => to_braille_block(other) # out[1].char
    /\ Rasterized =>
          \A l \in DOMAIN out[1].out_lines : \A b \in DOMAIN out[1].out_lines[l] :
              /\ out[1].out_lines[l][b].char \in 10240..10495
              /\ \A y \in 1..4, x \in 1..2 :
                    DotOf(out[1].out_lines[l][b].char, y, x) =
                        (IF out[1].bitmap[4 * (l - 1) + y][2 * (b - 1) + x] # 0 THEN 1 ELSE 0)
    /\ (Rasterized /\ node[1].kind = "braillify") =>
          /\ \A r \in DOMAIN node[1].bitmap : \A c \in DOMAIN node[1].bitmap[r] :
                NoGlyphAt(r, c) => node[1].bitmap[r][c] = 0
          /\ \A l \in DOMAIN out[1].out_lines : \A b \in DOMAIN out[1].out_lines[l] :
                (\A y \in 1..4, x \in 1..2 : NoGlyphAt(4 * (l - 1) + y, 2 * (b - 1) + x))
                    => out[1].out_lines[l][b].char = 10240

(* "?A" in the 6x8 font on 80 columns: the cells of "?" are blank, those   *)
(* of "A" are not                                                          *)
C21_Witness ==
    /\ Rasterized /\ node[1].kind = "braillify"
    /\ node[1].text = <<"?", "A">> /\ node[1].font_mode = "6x8" /\ term = 80
    /\ out[1].out_lines[1][1].char = 10240
    /\ out[1].out_lines[1][5].char # 10240

----------------------------------------------------------------------------
(* Button, WidgetElement and Nav, rendered more than once                  *)
(* (src/core/elements.py).  A render returns the string and leaves the     *)
(* object as self.                                                          *)

(* "\n".join(final_rendered_block) + "\n" *)
BlockString(final_rendered_block) == Join(<<NL>>, final_rendered_block) \o <<NL>>

(* Button.render *)
ButtonRender(self, terminal_width, enable_color) ==
    LetIn(ButtonPrepare(self), LAMBDA prepared :
       [self |-> prepared,
        returned |-> BlockString(BoxRender(prepared, terminal_width,
                                           enable_color).final_rendered_block)])

(* str.capitalize() of a lower-case word *)
Capitalize(s) ==
    IF s = <<>> THEN s
    ELSE <<CASE Head(s) = "t" -> "T" [] Head(s) = "c" -> "C" [] OTHER -> Head(s)>> \o Tail(s)

WidgetTypes == {<<"t", "i", "m", "e">>, <<"c", "l", "o", "c", "k">>}
WidgetArgs ==
    [widget_type : WidgetTypes,
     dashboard_generator : {None, Some("generator")},
     box_width : {12, 60}]

(* WidgetElement.__init__ : a Box without children, titled with the type   *)
WidgetInit(a) ==
    [widget_type |-> a.widget_type, dashboard_generator |-> a.dashboard_generator] @@
    [BoxInit([elements |-> <<>>,
              box_title |-> Some(Capitalize(a.widget_type)),
              start_x |-> Some(0), start_y |-> Some(0),
              end_x |-> Some(0 + (a.box_width + 2 * 0) - 1), end_y |-> None,
              element_alignment |-> "left",
              padding_x |-> 1, padding_y |-> 0,
              margin_x |-> 0, margin_y |-> 1,
              border_style |-> 1])
     EXCEPT !.kind = "WidgetElement"]

(* WidgetElement.render: a generator is installed when there is none, the  *)
(* content lines take the place of the children during Box.render          *)
WidgetRender(self, terminal_width, enable_color) ==
    LET generator == IF self.dashboard_generator = None
                     THEN Some("MockDashboardGenerator") ELSE self.dashboard_generator
        time_data == IF generator = Some("MockDashboardGenerator")
                     THEN <<"1", ":", "0", "0", " ", "P", "M">> ELSE <<"9", ":", "1", "5">>
        content_lines ==
            IF self.widget_type = <<"t", "i", "m", "e">>
            THEN << <<"C", "u", "r", "r", "e", "n", "t", " ", "T", "i", "m", "e", ":", " ">>
                    \o BOLD \o time_data \o RESET >>
            ELSE << <<"U", "n", "k", "n", "o", "w", "n", " ", "w", "i", "d", "g", "e", "t", " ",
                      "t", "y", "p", "e", ":", " ">> \o self.widget_type >>
        installed == [self EXCEPT !.dashboard_generator = generator]
    IN [self |-> installed,
        returned |-> BlockString(
            BoxRender([installed EXCEPT !.elements = <<Join(<<NL>>, content_lines)>>],
                      terminal_width, enable_color).final_rendered_block)]

(* the buttons of a navigation bar *)
NavButtons ==
    {ButtonInit(a) : a \in [label : {<<"O", "K">>, <<"a", CJK>>},
                            padding_x : {0, 1}, padding_y : {0, 1},
                            margin_x : {0}, margin_y : {0},
                            border_style : {1, 2}]}
MaxNavElements == 2
NavElementLists(max_elements) == UNION {[1..n -> NavButtons] : n \in 0..max_elements}

(* Nav.__init__ *)
NavInit(elements) == [kind |-> "Nav", elements |-> elements]

(* Nav._visible_width *)
Nav_visible_width(text) == wcswidth(StripSgr(text))

(* Nav.render: every button is rendered with its border_style set to 0     *)
(* and given back its own, the cells are as wide as the widest text        *)
NavRender(self, terminal_width, enable_color) ==
    IF self.elements = <<>> THEN [self |-> self, returned |-> <<>>]
    ELSE
    LetIn([i \in DOMAIN self.elements |->
             ButtonRender([self.elements[i] EXCEPT !.border_style = 0],
                          terminal_width, enable_color)], LAMBDA rendered :
    LetIn([i \in DOMAIN rendered |->
             LetIn(Strip(rendered[i].returned), LAMBDA rendered_text :
                [text |-> rendered_text, w |-> Nav_visible_width(rendered_text)])],
          LAMBDA rendered_parts_info :
       LET min_padding == 1
           n == Len(rendered_parts_info)
           max_width == CHOOSE m \in {0} \cup {rendered_parts_info[i].w : i \in 1..n} :
                           /\ m >= 0
                           /\ \A i \in 1..n : rendered_parts_info[i].w <= m
           cell_total_width == max_width + 2 * min_padding
           content_line(i) ==
               <<"V1">> \o Spaces(min_padding) \o rendered_parts_info[i].text
               \o Spaces(cell_total_width - rendered_parts_info[i].w - min_padding) \o <<"V1">>
           middle_border == <<"ML1">> \o Repeat("H1", cell_total_width) \o <<"MR1">>
           final_output ==
               << <<"TL1">> \o Repeat("H1", cell_total_width) \o <<"TR1">> >>
               \o Concat([i \in 1..n |-> IF i < n THEN <<content_line(i), middle_border>>
                                         ELSE <<content_line(i)>>])
               \o << <<"BL1">> \o Repeat("H1", cell_total_width) \o <<"BR1">> >>
       IN [self |-> [self EXCEPT !.elements =
                        [i \in DOMAIN rendered |->
                           [rendered[i].self EXCEPT
                               !.border_style = self.elements[i].border_style]]],
           returned |-> BlockString(final_output)]))

(* WidgetElement(widget_type, dashboard_generator, box_width=...) *)
NewWidget ==
    /\ node = None /\ raised = "none"
    /\ \E a \in WidgetArgs :
         /\ node' = Some(WidgetInit(a))
         /\ call' = Some([cls |-> "WidgetElement", element_alignment |-> "left",
                          border_style |-> 1])
    /\ raised' = "none"
    /\ out' = None
    /\ UNCHANGED term

(* Nav(elements) *)
NewNav ==
    /\ node = None /\ raised = "none"
    /\ \E elements \in NavElementLists(MaxNavElements) :
         /\ node' = Some(NavInit(elements))
         /\ call' = Some([cls |-> "Nav", element_alignment |-> "left", border_style |-> 1])
    /\ raised' = "none"
    /\ out' = None
    /\ UNCHANGED term

(* node.render(enable_color), as often as the caller wishes: out is the    *)
(* flag and the string returned                                             *)
RenderNode ==
    /\ node # None
    /\ node[1].kind \in {"Button", "WidgetElement", "Nav"}
    /\ \E enable_color \in BOOLEAN :
         LET r == IF node[1].kind = "Button" THEN ButtonRender(node[1], term, enable_color)
                  ELSE IF node[1].kind = "WidgetElement"
                       THEN WidgetRender(node[1], term, enable_color)
                       ELSE NavRender(node[1], term, enable_color)
         IN /\ node' = Some(r.self)
            /\ out' = Some([enable_color |-> enable_color, returned |-> r.returned])
    /\ UNCHANGED <<term, call, raised>>

PureNext ==
    \/ NewButton
    \/ NewWidget
    \/ NewNav
    \/ RenderNode
    \/ Discard

PureSpec == Init /\ [][PureNext]_vars

----------------------------------------------------------------------------
(* Properties of repeated renders *)

(* a step that renders the node: the only steps from a node to a node *)
RenderStep == node # None /\ node' # None

(* C22: nodes are immutable and render is pure: a render leaves every      *)
(* attribute of the node and of its children as it was, and two            *)
(* consecutive renders with the same colour flag on the same terminal      *)
(* return the same string.                                                  *)
C22_RenderIsPure ==
    [][RenderStep =>
         /\ node' = node
         /\ (out # None /\ out'[1].enable_color = out[1].enable_color) => out' = out]_vars

(* the second half alone: consecutive renders return the same string *)
C22_RepeatedRenderSameString ==
    [][(RenderStep /\ out # None /\ out'[1].enable_color = out[1].enable_color)
          => out' = out]_vars

----------------------------------------------------------------------------
(* The Renderer of main.py as the painter of the screen: render prints the *)
(* document, clear resets the terminal, refresh does both.  The Renderer   *)
(* has no attribute but its config_manager; out is the terminal: the text  *)
(* on the screen, what the last call printed, the rows of the document     *)
(* painted last (frame) and of the one painted before it (previous_frame). *)

FrameWords == {<<"f", "o", "o">>, <<"b", "a", "r">>, <<"b", "a", "z">>}
FrameParagraph(w) ==
    [kind |-> "Paragraph", tag_type |-> "p",
     content_parts |-> <<[kind |-> "TextNode", tag_type |-> "text", text |-> w]>>]
MaxFrameRows == 2
MaxScreenRows == 2
FrameDocuments(max_rows) ==
    UNION {[1..n -> {FrameParagraph(w) : w \in FrameWords}] : n \in 0..max_rows}

(* the rows of a text that was printed: its lines, each ended by a line    *)
(* feed or by the end of the text                                           *)
ContentRows(printed) ==
    IF printed = <<>> THEN <<>>
    ELSE IF printed[Len(printed)] = NL
         THEN SplitNL(SubSeq(printed, 1, Len(printed) - 1), <<>>)
         ELSE SplitNL(printed, <<>>)

(* Renderer.clear: ESC c resets the terminal, the screen is blank *)
RendererClear(screen) == <<>>

(* what a call of Renderer.render leaves on the terminal *)
Painted(config, terminal, elements, title, cleared) ==
    LET printed == RendererRender(config, elements, title)
        content == render_elements_recursive(config, elements, is_color_enabled(config))
    IN [screen |-> terminal.screen \o printed,
        printed |-> printed,
        content |-> content,
        cleared |-> cleared,
        previous_frame |-> terminal.frame,
        frame |-> ContentRows(content)]

(* Renderer.refresh: clear, then render *)
RendererRefresh(config, terminal, elements, title) ==
    Painted(config, [terminal EXCEPT !.screen = RendererClear(@), !.frame = <<>>],
            elements, title, TRUE)

BlankTerminal ==
    [screen |-> <<>>, printed |-> <<>>, content |-> <<>>, cleared |-> FALSE,
     previous_frame |-> <<>>, frame |-> <<>>]

(* Renderer(config_manager) on a blank terminal *)
PainterInit == /\ term = 80
               /\ \E config \in Configs : node = Some([kind |-> "Renderer", config |-> config])
               /\ call = None
               /\ raised = "none"
               /\ out = Some(BlankTerminal)

(* renderer.render(elements, title), while the screen has rows left *)
PainterRender ==
    /\ Len(ContentRows(out[1].screen)) < MaxScreenRows
    /\ \E elements \in FrameDocuments(MaxFrameRows), title \in PageTitles :
         out' = Some(Painted(node[1].config, out[1], elements, title, FALSE))
    /\ call' = Some([op |-> "render"])
    /\ UNCHANGED <<term, node, raised>>

(* renderer.clear() *)
PainterClear ==
    /\ out' = Some([BlankTerminal EXCEPT !.cleared = TRUE, !.previous_frame = out[1].frame])
    /\ call' = Some([op |-> "clear"])
    /\ UNCHANGED <<term, node, raised>>

(* renderer.refresh(elements, title) *)
PainterRefresh ==
    /\ \E elements \in FrameDocuments(MaxFrameRows), title \in PageTitles :
         out' = Some(RendererRefresh(node[1].config, out[1], elements, title))
    /\ call' = Some([op |-> "refresh"])
    /\ UNCHANGED <<term, node, raised>>

PainterNext ==
    \/ PainterRender
    \/ PainterClear
    \/ PainterRefresh

PainterSpec == PainterInit /\ [][PainterNext]_vars

----------------------------------------------------------------------------
(* Properties of the painter *)

PaintDone == call # None /\ call[1].op \in {"render", "refresh"}

(* the rows of the new frame that differ from the row of the same index of *)
(* the frame painted before                                                 *)
RECURSIVE ChangedRowsFrom(_, _, _)
ChangedRowsFrom(previous_frame, frame, i) ==
    IF i > Len(frame) THEN <<>>
    ELSE (IF i > Len(previous_frame) \/ previous_frame[i] # frame[i]
          THEN <<frame[i]>> ELSE <<>>)
         \o ChangedRowsFrom(previous_frame, frame, i + 1)

(* the frame the painter compares with: the one painted before, empty once *)
(* the screen was cleared                                                   *)
ComparedFrame == IF out[1].cleared THEN <<>> ELSE out[1].previous_frame

(* C23: the painter keeps the frame painted before and rewrites only the   *)
(* rows that differ from it: the content rows a paint writes are the rows  *)
(* of the new frame that differ.  After ["foo", "bar"] the frame           *)
(* ["foo", "baz"] writes row 1 only, and a paint that changes no row       *)
(* writes no content row.                                                   *)
C23_PaintWritesChangedRowsOnly ==
    PaintDone =>
        ContentRows(out[1].content) = ChangedRowsFrom(ComparedFrame, out[1].frame, 1)

----------------------------------------------------------------------------
(* Properties of the clearing of the screen *)

(* C24: a full clear wipes the screen, so that the paint that follows      *)
(* draws the whole document on a blank screen; every command that loads    *)
(* content or generates a page, and so every change of the browser's       *)
(* state, clears before it paints, and a command that displays nothing     *)
(* leaves what is on the screen and prints below it.                        *)
C24_ClearOnContentChangeOnly ==
    [][/\ out' # None
       /\ node' # node => out'[1].painted
       /\ IF out'[1].painted
          THEN out'[1].screen = <<[document |-> out'[1].document]>>
          ELSE /\ out # None
               /\ out'[1].document = out[1].document
               /\ Len(out'[1].screen) = Len(out[1].screen) + 1
               /\ SubSeq(out'[1].screen, 1, Len(out[1].screen)) = out[1].screen]_vars

(* back to the first page of the history, painted on a cleared screen *)
C24_Witness ==
    /\ Displayed /\ out[1].painted
    /\ call[1].cmd = "back"
    /\ Len(node[1].history) = 1
    /\ Len(out[1].document) = 2
    /\ out[1].screen = <<[document |-> out[1].document]>>

----------------------------------------------------------------------------
(* Properties of the content a box keeps *)

(* the text occurs in the row, its characters next to each other *)
Occurs(text, row) ==
    \E k \in 0..(Len(row) - Len(text)) : SubSeq(row, k + 1, k + Len(text)) = text

(* C25: Box.render never drops visible content that fits.  Whatever the    *)
(* alignment and the padding, a child line that is at most as wide as the  *)
(* computed content width has all its visible characters, in order, in the *)
(* content row emitted for it; so has the label of a Button.               *)
C25_FittingContentKept ==
    BoxRendered =>
        \A i \in DOMAIN ChildLines :
            (/\ Box_visible_width(ChildLines[i]) >= 0
             /\ Box_visible_width(ChildLines[i]) <= out[1].content_area_width)
            => Occurs(StripAnsi(ChildLines[i]), StripAnsi(out[1].final_content_lines[i]))

----------------------------------------------------------------------------
(* Properties of the lines of a table *)

(* C26: every physical line of a rendered table, borders, header lines,   *)
(* separator and body lines, has the same visible width, the sum of the    *)
(* column widths + the number of columns + 1, also when rows have fewer    *)
(* cells than the widest row, and every row, header or body, also one      *)
(* whose cells are all empty, produces at least one physical line.         *)
(* Stated for the tables that have a column.                                *)
C26_TableLinesAligned ==
    (TableRendered /\ Len(out[1].column_widths) >= 1) =>
        /\ \A l \in DOMAIN out[1].output_lines :
              Table_visible_width(out[1].output_lines[l])
                  = SumSeq(out[1].column_widths) + Len(out[1].column_widths) + 1
        /\ \A r \in DOMAIN out[1].row_lines :
              (r > 1 \/ node[1].headers # <<>>) => Len(out[1].row_lines[r]) >= 1

----------------------------------------------------------------------------
(* Properties of the content of a wrapped cell *)

(* the visible characters of the lines, in order *)
WrappedVisible == Concat([k \in DOMAIN out[1].lines |-> StripSgr(out[1].lines[k])])

(* C27: wrapping preserves content.  For every string s and width w >= 1   *)
(* the visible characters of the lines _wrap_cell(s, w) returns, style     *)
(* codes removed and the lines put one after the other, are the visible    *)
(* characters of s: none is lost, doubled or moved at a line break.        *)
C27_WrapPreservesContent ==
    (WrapCalled /\ node[1].width >= 1) => WrappedVisible = StripSgr(node[1].text)

(* a styled text with a wide character, broken into three lines *)
C27_Witness ==
    /\ WrapCalled
    /\ node[1].text = BOLD \o <<"a", CJK, "b">>
    /\ node[1].width = 2
    /\ Len(out[1].lines) = 3
    /\ WrappedVisible = <<"a", CJK, "b">>

----------------------------------------------------------------------------
(* Properties of the Browser's history *)

LastOf(history) == history[Len(history)]

(* C28: after any sequence of go, test, click, back, config and generate   *)
(* commands a history that is not empty ends with current_url; back with   *)
(* fewer than two entries changes neither the history nor current_url, so  *)
(* a history that is not empty never becomes empty; and the reload after a *)
(* change of the configuration adds no entry.                              *)
C28_HistoryInvariant ==
    [][/\ node'[1].history # <<>> => node'[1].current_url = Some(LastOf(node'[1].history))
       /\ node[1].history # <<>> => node'[1].history # <<>>
       /\ (call'[1].cmd = "back" /\ Len(node[1].history) < 2) =>
              /\ node'[1].history = node[1].history
              /\ node'[1].current_url = node[1].current_url
       /\ call'[1].cmd = "config set" => node'[1].history = node[1].history]_vars

(* back on a history of one entry: the entry and current_url stay *)
C28_Witness ==
    /\ IsBrowser /\ call # None /\ call[1].cmd = "back"
    /\ out # None /\ ~out[1].painted
    /\ Len(node[1].history) = 1
    /\ node[1].current_url = Some(node[1].history[1])

(***************************************************************************)
(* ConfigManager: core/configman.py and the one of main.py                 *)
(*                                                                         *)
(* node is the ConfigManager: the module its class comes from, the         *)
(* in-memory configuration self.config and the saved file (None when no    *)
(* file exists).  A successful save writes every entry of self.config, so  *)
(* the saved file is recorded as the configuration it holds.               *)
(***************************************************************************)
ConfigModules == {"core.configman", "main"}

(* the tag whose render-<tag> option is followed; 'title' is no supported  *)
(* tag, so render-title is no default option                               *)
ConfigTags == {"a"}
RenderKey(tag) == CASE tag = "a" -> "render-a" [] tag = "title" -> "render-title"
RenderKeys == {RenderKey(tag) : tag \in ConfigTags \cup {"title"}}

(* ConfigManager.DEFAULT_CONFIG *)
DEFAULT_CONFIG(module) ==
    LET flags == IF module = "core.configman"
                 THEN [k \in {"enable-color", "language", "first_run"} |->
                          IF k = "language" THEN "EN" ELSE "1"]
                 ELSE [k \in {"enable-color", "language"} |->
                          IF k = "language" THEN "EN" ELSE "1"]
        keys == DOMAIN flags \cup {RenderKey(tag) : tag \in ConfigTags}
    IN [k \in keys |-> IF k \in DOMAIN flags THEN flags[k] ELSE "1"]

(* the keys and values a set call is given *)
ConfigKeys == {"enable-color", "language", "first_run"} \cup RenderKeys
ConfigValues == {"0", "1", "vi", "%"}

(* str.upper on the values *)
upper(value) == IF value = "vi" THEN "VI" ELSE value

(* key.startswith("render-") *)
startswith_render(key) == key \in RenderKeys

(* configparser refuses a value with a lone '%' (ValueError) *)
parser_accepts(value) == value # "%"

(* ConfigManager._save_config: any exception is caught and only printed;   *)
(* io_ok tells whether the file could be opened for writing                *)
save_config(self, io_ok) ==
    IF self.module = "core.configman" /\ \E k \in DOMAIN self.config : ~parser_accepts(self.config[k])
    THEN self
    ELSE IF io_ok THEN [self EXCEPT !.file = Some(self.config)] ELSE self

(* ConfigManager.set(key, value): the ConfigManager after the call, the    *)
(* value returned (None when the call raised) and what it raised           *)
ConfigManager_set_RenderUnchecked(self, key, value, io_ok) ==
    LET rejected == [self |-> self, returned |-> Some(FALSE), raised |-> "none"]
        checked == IF self.module = "core.configman" THEN {"enable-color", "first_run"}
                   ELSE {"enable-color"}
    IN IF key \notin DOMAIN DEFAULT_CONFIG(self.module) THEN rejected
       ELSE IF key \in checked /\ value \notin {"0", "1"} THEN rejected
       ELSE LET stored == IF key = "language" THEN upper(value) ELSE value
                updated == [self EXCEPT !.config[key] = stored]
            IN IF self.module = "core.configman" /\ ~parser_accepts(stored)
               THEN [self |-> updated, returned |-> None, raised |-> "ValueError"]
               ELSE [self |-> save_config(updated, io_ok), returned |-> Some(TRUE),
                     raised |-> "none"]
ConfigManager_set(self, key, value, io_ok) ==
    LET rejected == [self |-> self, returned |-> Some(FALSE), raised |-> "none"]
        checked == IF self.module = "core.configman" THEN {"enable-color", "first_run"}
                   ELSE {"enable-color"}
    IN IF key \notin DOMAIN DEFAULT_CONFIG(self.module) THEN rejected
       ELSE IF key \in checked /\ value \notin {"0", "1"} THEN rejected
       ELSE LET stored == IF key = "language" THEN upper(value) ELSE value
                updated == [self EXCEPT !.config[key] = stored]
            IN IF startswith_render(key) /\ stored \notin {"0", "1"} THEN rejected
               ELSE IF self.module = "core.configman" /\ ~parser_accepts(stored)
               THEN [self |-> updated, returned |-> None, raised |-> "ValueError"]
               ELSE [self |-> save_config(updated, io_ok), returned |-> Some(TRUE),
                     raised |-> "none"]

(* ConfigManager(): _load_config, with _create_default_config when no file *)
(* exists; a file that cannot be read gives the defaults.  In              *)
(* core/configman.py _create_default_config hands its comment lines to     *)
(* parser.set without a value, which raises before the file is opened: the *)
(* exception is caught and no file is written.                             *)
ConfigManagerInit(module, file, io_ok) ==
    LET created == IF file # None THEN file
                   ELSE IF module = "main" /\ io_ok THEN Some(DEFAULT_CONFIG(module))
                   ELSE None
        loaded == IF created = None THEN DEFAULT_CONFIG(module)
                  ELSE IF module = "core.configman"
                          /\ \E k \in DOMAIN created[1] : ~parser_accepts(created[1][k])
                  THEN DEFAULT_CONFIG(module)
                  ELSE [k \in DOMAIN DEFAULT_CONFIG(module) |->
                           IF k \in DOMAIN created[1] THEN created[1][k]
                           ELSE DEFAULT_CONFIG(module)[k]]
    IN [kind |-> "ConfigManager", module |-> module, config |-> loaded, file |-> created]

(* the first launch: no file is saved yet *)
ConfigInit == /\ term = 80
              /\ \E module \in ConfigModules, io_ok \in BOOLEAN :
                   node = Some(ConfigManagerInit(module, None, io_ok))
              /\ call = None
              /\ raised = "none"
              /\ out = None

(* config_manager.set(key, value) *)
ConfigSet ==
    \E key \in ConfigKeys, value \in ConfigValues, io_ok \in BOOLEAN :
       LET r == ConfigManager_set(node[1], key, value, io_ok)
       IN /\ node' = Some(r.self)
          /\ call' = Some([op |-> "set", key |-> key, value |-> value])
          /\ raised' = r.raised
          /\ out' = Some([returned |-> r.returned])
          /\ UNCHANGED term

(* the program is started again: ConfigManager() reads the saved file *)
ConfigRestart ==
    /\ \E io_ok \in BOOLEAN :
         node' = Some(ConfigManagerInit(node[1].module, node[1].file, io_ok))
    /\ call' = Some([op |-> "ConfigManager"])
    /\ raised' = "none"
    /\ out' = None
    /\ UNCHANGED term

ConfigNext ==
    \/ ConfigSet
    \/ ConfigRestart

ConfigSpec == ConfigInit /\ [][ConfigNext]_vars

(* the options that take "0" or "1" only *)
BinaryKeys == {"enable-color", "first_run"} \cup RenderKeys

(* the set call just made is one the claim says is refused *)
RefusedCall ==
    /\ call' # None
    /\ call'[1].op = "set"
    /\ \/ call'[1].key \notin DOMAIN DEFAULT_CONFIG(node[1].module)
       \/ call'[1].key \in BinaryKeys /\ call'[1].value \notin {"0", "1"}

(* enable-color and every render-<tag> option hold "0" or "1" *)
FlagsBinary ==
    \A k \in DOMAIN node[1].config :
       (k = "enable-color" \/ startswith_render(k)) => node[1].config[k] \in {"0", "1"}

(* C29: a set call with a key that is no default option, or with a value   *)
(* other than "0" or "1" for enable-color, first_run or a render-<tag>     *)
(* key, returns False and leaves the in-memory configuration and the saved *)
(* file as they were; and from the defaults on, enable-color and every     *)
(* render-<tag> option hold "0" or "1" only.                               *)
C29_SetValidatesBeforeWrite ==
    /\ []FlagsBinary
    /\ [][RefusedCall => /\ out'[1].returned = Some(FALSE)
                         /\ raised' = "none"
                         /\ node'[1].config = node[1].config
                         /\ node'[1].file = node[1].file]_vars

(* a refused call after accepted ones: render-a was set to "0" and saved,  *)
(* then render-a "vi" was refused                                          *)
C29_Witness ==
    /\ call # None /\ call[1].op = "set"
    /\ call[1].key = "render-a" /\ call[1].value = "vi"
    /\ out[1].returned = Some(FALSE)
    /\ node[1].config["render-a"] = "0"
    /\ node[1].file # None /\ node[1].file[1]["render-a"] = "0"
    /\ node[1].config["language"] = "VI"

(* C30: with the colour flag False, what render returns holds no style     *)
(* escape sequence, for a node built from text without one (here a Button  *)
(* and a Nav of Buttons).                                                  *)
C30_NoEscapeWithoutColor ==
    (out # None /\ node # None /\ node[1].kind \in {"Button", "Nav"} /\ ~out[1].enable_color)
        => \A i \in DOMAIN out[1].returned : out[1].returned[i] # ESC
====
